---- MODULE Spec2Model ----
(***************************************************************************)
(* V16 tracker ingestor: the polling worker (app/main.py), the event      *)
(* store with its merge / staleness sweep / garbage collection, the       *)
(* normalizer of app/etraffic.py that feeds it, the lifespan of the       *)
(* application and the readers of app/api/routes.py.                      *)
(*                                                                         *)
(* Time is counted in whole seconds.  datetime values are integers, None  *)
(* is the value None below.  The settings are read from the environment   *)
(* (app/core/config.py); the model runs under a configuration with small  *)
(* durations so that staleness and retention are reached in a few cycles. *)
(***************************************************************************)
EXTENDS Integers, Sequences, FiniteSets, TLC

\* ------------------------------------------------------------------ bounds
\* last second of the wall clock that the model explores
MaxClock == 9
\* most records in one upstream payload
MaxRecords == 2
\* the count of failed cycles in a row stops here
MaxFailures == 3
\* longest text of a field
MaxTextLen == 2
\* most elements of a payload that is a list, and of a list under a key
MaxItems == 2
MaxKeyedItems == 1
\* wall clock at process start; documents of the durable backend are older
BootClock == 2

\* ---------------------------------------------------------------- settings
poller_backoff_base_seconds == 1
poller_backoff_max_seconds == 4
poll_interval_seconds == 3
stale_after_seconds == 2
lost_gc_seconds == 4
\* random.uniform(0, 1), in whole seconds
JitterMax == 1
\* await asyncio.sleep(1) before the first cycle
StartupSleep == 1

None == -1

Ids == {"a", "b"}

\* no snapshot: the handler has read nothing
NoSnapshot == <<>>

\* no payload on record
NoPayload == <<>>

\* no call: no argument, no returned value
NoCall == <<>>

\* A start timestamp later than every "now" of the model.
FutureStart == MaxClock + 5

\* ------------------------------------------------------- upstream records
\* fechaInicio as the upstream sends it: absent or empty (""), unparsable
\* ("bad"), or an ISO-8601 text (here the text of second 0 and of a second in
\* the future).
\* parse_datetime followed by astimezone(utc): None for falsy or unparsable
\* input, the instant otherwise.
parse_datetime(value) ==
    CASE value = "" -> None
      [] value = "bad" -> None
      [] value = "t0" -> 0
      [] value = "tfuture" -> FutureStart

\* _normalize_text: str(value or "").strip().lower(), on the texts that the
\* records of the model carry.
normalize_text(value) ==
    CASE value = "Advertencia" -> "advertencia"
      [] value = " ADVERTENCIA " -> "advertencia"
      [] value = "Vehículo detenido" -> "vehículo detenido"
      [] value = "Obras" -> "obras"
      [] OTHER -> value

\* A raw record: explicit id, source tag, type, cause, the shape of its
\* coordinates ("ok": a finite pair, "none": no usable pair, "overflow": an
\* integer too large for float(), which raises OverflowError) and the start
\* timestamp text.
RawRecord(id, fuente, tipo, causa, coord, fecha) ==
    [id |-> id, fuente |-> fuente, tipo |-> tipo, causa |-> causa,
     coord |-> coord, fechaInicio |-> fecha]

MatchingRecords ==
    { RawRecord("a", "DGT3.0", "Advertencia", "Vehículo detenido", "ok", f) :
        f \in {"", "t0", "tfuture"} }
    \cup { RawRecord("b", "DGT3.0", " ADVERTENCIA ", "Vehículo detenido", "ok", "bad") }

OtherRecords ==
    { RawRecord("a", "DGT3.0", "Advertencia", "Obras", "ok", ""),
      RawRecord("b", "other", "Advertencia", "Vehículo detenido", "ok", ""),
      RawRecord("a", "DGT3.0", "Advertencia", "Vehículo detenido", "none", ""),
      RawRecord("b", "DGT3.0", "Advertencia", "Vehículo detenido", "overflow", "") }

RawRecords == MatchingRecords \cup OtherRecords

RECURSIVE SeqsUpTo(_, _)
SeqsUpTo(S, n) ==
    IF n = 0 THEN { <<>> }
    ELSE LET shorter == SeqsUpTo(S, n - 1)
         IN shorter \cup { Append(s, x) : s \in { t \in shorter : Len(t) = n - 1 }, x \in S }

\* The decoded payloads of the model: top-level lists of records.
Payloads == SeqsUpTo(RawRecords, MaxRecords)

\* ------------------------------------------------------------- normalizer
\* _is_v16_candidate
is_v16_candidate(raw) ==
    /\ raw.fuente = "DGT3.0"
    /\ normalize_text(raw.tipo) = "advertencia"
    /\ normalize_text(raw.causa) = "vehículo detenido"

\* _extract_coordinates raises on a record whose coordinate makes float()
\* overflow; the exception leaves extract_candidates and _refresh_events.
coordinates_raise(raw) == raw.coord = "overflow"

\* _event_key for a record with an explicit id
event_key(raw) == raw.id

\* EtrafficService.parse_event, without the clamp of a future start
parse_event_noclamp(raw, now) ==
    IF raw.coord # "ok" THEN <<>>
    ELSE LET started == parse_datetime(raw.fechaInicio)
             first_seen == IF started # None THEN started ELSE now
         IN << [id |-> event_key(raw), first_seen |-> first_seen, last_seen |-> now,
                raw |-> raw, estado |-> "active"] >>

\* EtrafficService.parse_event.  The Optional[V16Event] it returns is a
\* sequence: empty for None (no coordinates), else the one event.
parse_event(raw, now) ==
    IF raw.coord # "ok" THEN <<>>
    ELSE LET parsed == parse_datetime(raw.fechaInicio)
             started == IF parsed # None /\ parsed > now THEN now ELSE parsed
             first_seen == IF started # None THEN started ELSE now
         IN << [id |-> event_key(raw), first_seen |-> first_seen, last_seen |-> now,
                raw |-> raw, estado |-> "active"] >>

\* an extract_candidates that normalizes every record, filter or not
RECURSIVE extract_candidates_unfiltered(_, _)
extract_candidates_unfiltered(raw_events, now) ==
    IF raw_events = <<>> THEN <<>>
    ELSE parse_event(Head(raw_events), now)
            \o extract_candidates_unfiltered(Tail(raw_events), now)

\* EtrafficService.extract_candidates
RECURSIVE extract_candidates(_, _)
extract_candidates(raw_events, now) ==
    IF raw_events = <<>> THEN <<>>
    ELSE LET raw == Head(raw_events)
             rest == extract_candidates(Tail(raw_events), now)
         IN IF ~is_v16_candidate(raw) THEN rest
            ELSE parse_event(raw, now) \o rest

\* extract_candidates raises when a record that passes the filter makes the
\* coordinate conversion raise.
candidates_raise(raw_events) ==
    \E i \in 1..Len(raw_events) :
        is_v16_candidate(raw_events[i]) /\ coordinates_raise(raw_events[i])

\* _filter_by_source on a top-level list
RECURSIVE filter_by_source(_, _)
filter_by_source(payload, source) ==
    IF payload = <<>> THEN <<>>
    ELSE IF Head(payload).fuente = source
         THEN <<Head(payload)>> \o filter_by_source(Tail(payload), source)
         ELSE filter_by_source(Tail(payload), source)

\* ------------------------------------------------------------------ store
\* The store is a dict: a function from its keys to events, with the keys
\* in insertion order.
EmptyStore == << >>

\* the store of no cycle
NoStore == [events |-> EmptyStore, order |-> <<>>]

store_put(store, key, value) ==
    [k \in (DOMAIN store) \cup {key} |-> IF k = key THEN value ELSE store[k]]

order_put(order, key) ==
    IF \E i \in 1..Len(order) : order[i] = key THEN order ELSE Append(order, key)

store_pop(store, key) == [k \in (DOMAIN store) \ {key} |-> store[k]]

\* existing.copy(update=...) of the merge, keeping the stored last_seen
merge_update_keep_seen(existing, event, now) ==
    [existing EXCEPT !.raw = event.raw, !.estado = "active"]

\* existing.copy(update=...) of the merge, replaced by the candidate itself
merge_update_replace(existing, event, now) == event

\* an upsert: the candidate's fields, with the first_seen of the entry
merge_update_upsert(existing, event, now) ==
    [event EXCEPT !.first_seen = existing.first_seen]

\* existing.copy(update=...) of the merge, with the candidate's first_seen
\* taken for last_seen
merge_update_first_seen(existing, event, now) ==
    [existing EXCEPT !.last_seen = event.first_seen, !.raw = event.raw,
                     !.estado = "active"]

\* existing.copy(update={"last_seen": now, "raw": event.raw, "estado": active})
merge_update(existing, event, now) ==
    [existing EXCEPT !.last_seen = now, !.raw = event.raw, !.estado = "active"]

\* a merge that stores every candidate under one key
merge_key_fixed(event) == "a"

\* the key under which the merge reads and stores a candidate
merge_key(event) == event.id

\* The for loop of the merge over candidates[i..]: the store, the key order
\* and active_updates after it.
RECURSIVE merge_loop(_, _, _, _, _, _)
merge_loop(cands, i, store, order, active, now) ==
    IF i > Len(cands)
    THEN [events |-> store, order |-> order, active_updates |-> active]
    ELSE LET event == cands[i]
             updated == IF merge_key(event) \in DOMAIN store
                        THEN merge_update(store[merge_key(event)], event, now)
                        ELSE event
         IN merge_loop(cands, i + 1,
                       store_put(store, merge_key(event), updated),
                       order_put(order, merge_key(event)),
                       Append(active, updated), now)

\* the staleness test, on first_seen for last_seen
is_stale_first_seen(evt, now) ==
    evt.estado = "active" /\ evt.first_seen < now - stale_after_seconds

\* a sweep that marks every active entry
is_stale_always(evt, now) == evt.estado = "active"

\* the staleness test of the sweep
is_stale(evt, now) ==
    evt.estado = "active" /\ evt.last_seen < now - stale_after_seconds

\* The for loop of the sweep over the keys order[i..]: the store and
\* lost_updates after it.
RECURSIVE sweep_loop(_, _, _, _, _)
sweep_loop(order, i, store, lost, now) ==
    IF i > Len(order)
    THEN [events |-> store, lost_updates |-> lost]
    ELSE LET eid == order[i]
             evt == store[eid]
         IN IF is_stale(evt, now)
            THEN LET lost_event == [evt EXCEPT !.estado = "lost"]
                 IN sweep_loop(order, i + 1, store_put(store, eid, lost_event),
                               Append(lost, lost_event), now)
            ELSE sweep_loop(order, i + 1, store, lost, now)

\* the removal test of _gc_events, with <= for <
gc_removes_inclusive(evt, now) ==
    evt.estado = "lost" /\ evt.last_seen <= now - lost_gc_seconds

\* a garbage collection that removes nothing
gc_removes_never(evt, now) == FALSE

\* the removal test of _gc_events
gc_removes(evt, now) ==
    evt.estado = "lost" /\ evt.last_seen < now - lost_gc_seconds

\* _gc_events: the store and the key order after it
RECURSIVE gc_events(_, _, _, _)
gc_events(order, i, store, now) ==
    IF i > Len(order)
    THEN [events |-> store, order |-> SelectSeq(order, LAMBDA k : k \in DOMAIN store)]
    ELSE IF gc_removes(store[order[i]], now)
         THEN gc_events(order, i + 1, store_pop(store, order[i]), now)
         ELSE gc_events(order, i + 1, store, now)

\* ----------------------------------------------------------------- worker
Min(a, b) == IF a < b THEN a ELSE b

\* the backoff after a failed cycle, without the cap
next_backoff_uncapped(backoff) == backoff * 2

\* backoff = min(backoff * 2, settings.poller_backoff_max_seconds)
next_backoff(backoff) == Min(backoff * 2, poller_backoff_max_seconds)

\* -------------------------------------------------------------------- state
VARIABLES
    clock,           \* datetime.now(), in seconds
    life,            \* lifespan: "startup", "running", "stopping", "stopped"
    es_client,       \* app.state.es_client is not None
    poller_enabled,  \* settings.poller_enabled
    events,          \* app.state.events
    events_order,    \* the keys of app.state.events in insertion order
    lock,            \* holder of app.state.events_lock: "free", "worker", "reader"
    wpc,             \* position of the polling worker task
    now,             \* now of the cycle in progress
    fetched,         \* how the fetch of the cycle in progress ended
    candidates,      \* candidates of the cycle in progress
    active_updates,  \* active_updates of the cycle in progress
    lost_updates,    \* lost_updates of the cycle in progress
    pre,             \* the store and its key order when the cycle in progress took the lock
    backoff,         \* backoff of _polling_worker
    sleep_for,       \* sleep_for of _polling_worker
    last_cycle,      \* how the last cycle, its fetch and its persistence hand-off
                     \* ended, and the failed cycles in a row up to it
    rpc,             \* position of the request handler that reads the store
    snapshot,        \* what the handler has read under the lock
    payload,         \* the decoded payload of the cycle in progress, on record in
                     \* the specifications that relate the store to it
    client,          \* EtrafficService.client: the client it holds (0 for None),
                     \* with the clients constructed so far and those closed
    heap,            \* the event objects and the references to them, in the
                     \* specification that tells an object from its value
    fn_arg,          \* the argument of a function that is called on its own
    fn_result        \* what the call returned: no value before the call, one after

config_vars == << es_client, poller_enabled >>
store_vars == << events, events_order >>
cycle_vars == << now, fetched, candidates, active_updates, lost_updates, pre, payload >>
loop_vars == << backoff, sleep_for, last_cycle >>
reader_vars == << rpc, snapshot >>
call_vars == << fn_arg, fn_result >>

vars == << clock, life, config_vars, store_vars, lock, wpc, cycle_vars, loop_vars,
           reader_vars, call_vars, client, heap >>

\* no event object yet: the store refers to none and no handler holds a list
EmptyHeap == [objects |-> <<>>, refs |-> <<>>, order |-> <<>>, phase |-> "idle", held |-> <<>>]

\* EtrafficService.__init__: no client yet
NoClient == [current |-> 0, made |-> 0, closed |-> {}]

\* get_client: the client held, constructed when there is none
get_client(c) ==
    IF c.current = 0
    THEN [current |-> c.made + 1, made |-> c.made + 1, closed |-> c.closed]
    ELSE c

\* EtrafficService.close: the client held is closed and let go
close_client(c) ==
    IF c.current # 0
    THEN [current |-> 0, made |-> c.made, closed |-> c.closed \cup { c.current }]
    ELSE c

\* How a fetch can end: a decoded payload, a body that no strategy decodes,
\* a non-2xx status, a network error, a timeout.
FetchResults == {"ok", "undecodable", "http_status", "network_error", "timeout"}

\* the fetch attempts that fail
FetchFailures == {"http_status", "network_error", "timeout"}

\* An event as the durable backend returns it for id i.
StoredEvent(i, first, last, estado) ==
    [id |-> i, first_seen |-> first, last_seen |-> last,
     raw |-> RawRecord(i, "DGT3.0", "Advertencia", "Vehículo detenido", "ok", ""),
     estado |-> estado]

\* The hits that bootstrap_from_elasticsearch can parse: documents written by
\* earlier runs, newest first.
BootSnapshots ==
    { <<>> }
    \cup { << StoredEvent("a", 0, l, e) >> : l \in {0, BootClock}, e \in {"active", "lost"} }
    \cup { << StoredEvent("b", 1, BootClock, "active"), StoredEvent("a", 0, 1, "lost") >> }

\* a bootstrap that keeps the newest hit only, under the id of the oldest
restore_newest_only(hits, store) ==
    IF hits = <<>> THEN store
    ELSE store_put(store, hits[Len(hits)].id, hits[1])

\* restored[event.id] = event, for every hit
RECURSIVE restore(_, _)
restore(hits, store) ==
    IF hits = <<>> THEN store
    ELSE restore(Tail(hits), store_put(store, Head(hits).id, Head(hits)))

RECURSIVE restore_order(_, _)
restore_order(hits, order) ==
    IF hits = <<>> THEN order
    ELSE restore_order(Tail(hits), order_put(order, Head(hits).id))

\* the application as constructed, before the lifespan starts
Constructed ==
    /\ clock = BootClock
    /\ life = "startup"
    /\ es_client = FALSE
    /\ poller_enabled \in BOOLEAN
    /\ events = EmptyStore
    /\ events_order = <<>>
    /\ lock = "free"
    /\ wpc = "none"
    /\ now = None
    /\ fetched = "none"
    /\ candidates = <<>>
    /\ active_updates = <<>>
    /\ lost_updates = <<>>
    /\ pre = NoStore
    /\ backoff = poller_backoff_base_seconds
    /\ sleep_for = StartupSleep
    /\ last_cycle = [ended |-> "none", fetch |-> "none", persist |-> "none", failures |-> 0]
    /\ rpc = "idle"
    /\ snapshot = NoSnapshot
    /\ payload = NoPayload
    /\ client = NoClient
    /\ heap = EmptyHeap

Init ==
    /\ Constructed
    /\ fn_arg = NoCall
    /\ fn_result = NoCall

\* --------------------------------------------------------------- lifespan
\* lifespan, up to the yield: connect the durable backend, load the store
\* from it, create the polling task.
Startup(connected, hits) ==
    /\ life = "startup"
    /\ lock = "free"
    /\ es_client' = connected
    /\ IF connected
       THEN /\ events' = restore(hits, EmptyStore)
            /\ events_order' = restore_order(hits, <<>>)
       ELSE /\ hits = <<>>
            /\ UNCHANGED store_vars
    /\ wpc' = IF poller_enabled THEN "startsleep" ELSE "none"
    /\ life' = "running"
    /\ UNCHANGED << call_vars, heap, client, clock, poller_enabled, lock, cycle_vars, loop_vars, reader_vars >>

\* lifespan after the yield: task.cancel()
Shutdown ==
    /\ life = "running"
    /\ life' = "stopping"
    /\ UNCHANGED << call_vars, heap, client, clock, config_vars, store_vars, lock, wpc, cycle_vars, loop_vars, reader_vars >>

\* a cancellation that is delivered wherever the worker is
at_any_point == wpc \notin {"none", "done"}

\* the worker is suspended at an await: a sleep, the fetch, the lock when it
\* is taken, the bulk write of the persistence hand-off
at_await ==
    \/ wpc \in {"startsleep", "fetch", "sleep"}
    \/ wpc = "acquire" /\ lock # "free"
    \/ wpc = "persist" /\ es_client /\ active_updates \o lost_updates # <<>>

\* the cancelled task ends at the await where it is suspended
WorkerCancelled ==
    /\ life = "stopping"
    /\ at_await
    /\ wpc' = "done"
    /\ UNCHANGED << call_vars, heap, client, clock, life, config_vars, store_vars, lock, cycle_vars, loop_vars, reader_vars >>

\* a lifespan that does not wait for the task
task_not_awaited == TRUE

\* lifespan: await task returns once the cancelled task has ended (there is
\* none to await when the poller is disabled)
task_awaited == wpc \in {"none", "done"}

\* lifespan: await task, close the HTTP client and the backend client
Close ==
    /\ life = "stopping"
    /\ task_awaited
    /\ life' = "stopped"
    /\ client' = close_client(client)
    /\ UNCHANGED << call_vars, heap, clock, config_vars, store_vars, lock, wpc, cycle_vars, loop_vars, reader_vars >>

\* ----------------------------------------------------------------- worker
\* asyncio.sleep returns (the first sleep of one second, or the sleep at the
\* end of the loop body with its jitter); the next cycle takes its now and
\* starts the fetch.  Of the cycle before, only its outcome and the count
\* of failures stay on record.
WorkerWake(jitter) ==
    /\ life = "running"
    /\ wpc \in {"startsleep", "sleep"}
    /\ clock + sleep_for + jitter <= MaxClock
    /\ clock' = clock + sleep_for + jitter
    /\ now' = clock'
    /\ wpc' = "fetch"
    /\ fetched' = "pending"
    /\ client' = get_client(client)
    /\ last_cycle' = [last_cycle EXCEPT !.fetch = "none", !.persist = "none"]
    /\ UNCHANGED << call_vars, heap, life, config_vars, store_vars, lock, candidates, active_updates,
                    lost_updates, pre, payload, backoff, sleep_for, reader_vars >>

\* raw_events of the cycle: the records of a decoded payload after
\* _filter_by_source, the empty list when fetch_payload returned None
raw_events_of(result, data) ==
    IF result = "ok" THEN filter_by_source(data, "DGT3.0") ELSE <<>>

\* a fetch_payload that lets the failure of the decoders out
fetch_raises_undecodable(result, data) ==
    result = "undecodable" \/ candidates_raise(raw_events_of(result, data))

\* whether the cycle leaves _refresh_events by an exception before the lock:
\* fetch_payload catches every exception of the fetch, the normalizer's are
\* not caught
fetch_raises(result, data) == candidates_raise(raw_events_of(result, data))

\* a loop whose exception ends the task
after_exception_uncaught == "done"

\* where the worker is after an exception of _refresh_events: except Exception
\* catches it inside the loop, and the sleep at the end of the loop body follows
after_exception == "sleep"

\* the locals of _refresh_events are gone when it returns or raises
cycle_cleared ==
    /\ now' = None
    /\ fetched' = "none"
    /\ candidates' = <<>>
    /\ active_updates' = <<>>
    /\ lost_updates' = <<>>
    /\ pre' = NoStore
    /\ payload' = NoPayload

\* fetch_payload returns data; extract_records and extract_candidates run.
\* An exception of the normalizer ends the cycle in the except branch of
\* _polling_worker.  recorded is what goes on record as the payload.
FetchReturns(result, data, recorded) ==
    /\ life = "running"
    /\ wpc = "fetch"
    /\ IF fetch_raises(result, data)
       THEN /\ backoff' = next_backoff(backoff)
            /\ sleep_for' = backoff'
            /\ last_cycle' = [ended |-> "failed", fetch |-> result, persist |-> "none",
                               failures |-> Min(last_cycle.failures + 1, MaxFailures)]
            /\ wpc' = after_exception
            /\ cycle_cleared
       ELSE /\ fetched' = result
            /\ candidates' = extract_candidates(raw_events_of(result, data), now)
            /\ payload' = recorded
            /\ wpc' = "acquire"
            /\ UNCHANGED << now, active_updates, lost_updates, pre, loop_vars >>
    /\ UNCHANGED << call_vars, heap, client, clock, life, config_vars, store_vars, lock, reader_vars >>

\* the fetch of a cycle
WorkerFetch(result, data) == FetchReturns(result, data, NoPayload)

\* the fetch of a cycle, with the payload kept on record
WorkerFetchRecorded(result, data) == FetchReturns(result, data, data)

\* the payloads that a fetch ending in result can carry
PayloadsOf(result) == IF result = "ok" THEN Payloads ELSE { <<>> }

\* async with app.state.events_lock
WorkerAcquire ==
    /\ wpc = "acquire"
    /\ lock = "free"
    /\ lock' = "worker"
    /\ pre' = [events |-> events, order |-> events_order]
    /\ wpc' = "merge"
    /\ UNCHANGED << call_vars, heap, client, clock, life, config_vars, store_vars, now, fetched, candidates,
                    active_updates, lost_updates, payload, loop_vars, reader_vars >>

\* the merge of the candidates into the store
WorkerMerge ==
    /\ wpc = "merge"
    /\ LET m == merge_loop(candidates, 1, events, events_order, <<>>, now)
       IN /\ events' = m.events
          /\ events_order' = m.order
          /\ active_updates' = m.active_updates
    /\ wpc' = "sweep"
    /\ UNCHANGED << call_vars, heap, client, clock, life, config_vars, lock, now, fetched, candidates,
                    lost_updates, pre, payload, loop_vars, reader_vars >>

\* the staleness sweep
WorkerSweep ==
    /\ wpc = "sweep"
    /\ LET s == sweep_loop(events_order, 1, events, <<>>, now)
       IN /\ events' = s.events
          /\ lost_updates' = s.lost_updates
    /\ wpc' = "gc"
    /\ UNCHANGED << call_vars, heap, client, clock, life, config_vars, events_order, lock, now, fetched,
                    candidates, active_updates, pre, payload, loop_vars, reader_vars >>

\* a critical section that extends over the persistence hand-off
held_after_gc == "worker"

\* the holder of the lock after _gc_events: the async with block ends there,
\* before the hand-off
released_after_gc == "free"

\* _gc_events, then the lock is released
WorkerGc ==
    /\ wpc = "gc"
    /\ LET g == gc_events(events_order, 1, events, now)
       IN /\ events' = g.events
          /\ events_order' = g.order
    /\ lock' = released_after_gc
    /\ wpc' = "persist"
    /\ UNCHANGED << call_vars, heap, client, clock, life, config_vars, cycle_vars, loop_vars, reader_vars >>

\* How persist_events_to_elastic can end.
PersistResults == {"skipped", "ok", "errors", "raised"}

\* a hand-off whose bulk write is outside the try
persist_raises_uncaught(result) == result = "raised"

\* whether persist_events_to_elastic leaves by an exception: the bulk write
\* and the report of its errors are inside try / except Exception
persist_raises(result) == FALSE

\* persist_events_to_elastic ends: without a write ("skipped": no backend or
\* no action), or after the bulk write, which succeeded, reported errors or
\* raised.  The cycle has succeeded unless the hand-off raises.
WorkerPersist(result) ==
    /\ wpc = "persist"
    /\ IF es_client /\ active_updates \o lost_updates # <<>>
       THEN life = "running" /\ result # "skipped"
       ELSE result = "skipped"
    /\ IF persist_raises(result)
       THEN /\ backoff' = next_backoff(backoff)
            /\ sleep_for' = backoff'
            /\ last_cycle' = [ended |-> "failed", fetch |-> fetched, persist |-> result,
                               failures |-> Min(last_cycle.failures + 1, MaxFailures)]
            /\ wpc' = after_exception
       ELSE /\ backoff' = poller_backoff_base_seconds
            /\ sleep_for' = poll_interval_seconds
            /\ last_cycle' = [ended |-> "succeeded", fetch |-> fetched, persist |-> result,
                               failures |-> 0]
            /\ wpc' = "sleep"
    /\ cycle_cleared
    /\ UNCHANGED << call_vars, heap, client, clock, life, config_vars, store_vars, lock, reader_vars >>

\* ---------------------------------------------------------------- readers
\* The requests that read the in-memory store: health, list_events and
\* get_event (the last two when the durable backend gave no answer).
Requests ==
    { [kind |-> "health", id |-> ""], [kind |-> "list", id |-> ""] }
    \cup { [kind |-> "get", id |-> i] : i \in Ids }

\* list(store.values())
RECURSIVE values_of(_, _)
values_of(order, store) ==
    IF order = <<>> THEN <<>>
    ELSE << store[Head(order)] >> \o values_of(Tail(order), store)

\* What a handler reads from the store under the lock: the number of events,
\* the list of the values, or the event of an id (a list of one or none).
read_store(req, order, store) ==
    CASE req.kind = "health" -> << Cardinality(DOMAIN store) >>
      [] req.kind = "list" -> values_of(order, store)
      [] req.kind = "get" -> IF req.id \in DOMAIN store THEN << store[req.id] >> ELSE <<>>

\* a handler that reads without waiting for the lock
reader_may_enter_unlocked(holder) == TRUE

\* async with request.app.state.events_lock: the lock must be free
reader_may_enter(holder) == holder = "free"

\* the handler takes the lock
ReaderAcquire ==
    /\ life = "running"
    /\ rpc = "idle"
    /\ reader_may_enter(lock)
    /\ lock' = "reader"
    /\ rpc' = "locked"
    /\ UNCHANGED << call_vars, heap, client, clock, life, config_vars, store_vars, wpc, cycle_vars, loop_vars,
                    snapshot >>

\* the handler reads the store under the lock
ReaderRead(req) ==
    /\ rpc = "locked"
    /\ snapshot' = [req |-> req, value |-> read_store(req, events_order, events)]
    /\ rpc' = "read"
    /\ UNCHANGED << call_vars, heap, client, clock, life, config_vars, store_vars, lock, wpc, cycle_vars,
                    loop_vars >>

\* the handler leaves the lock and returns its response
ReaderReturn ==
    /\ rpc = "read"
    /\ lock' = "free"
    /\ rpc' = "idle"
    /\ snapshot' = NoSnapshot
    /\ UNCHANGED << call_vars, heap, client, clock, life, config_vars, store_vars, wpc, cycle_vars, loop_vars >>

Next ==
    \/ life = "startup" /\ \E c \in BOOLEAN, h \in BootSnapshots : Startup(c, h)
    \/ Shutdown
    \/ WorkerCancelled
    \/ Close
    \/ \E j \in 0..JitterMax : WorkerWake(j)
    \/ wpc = "fetch" /\ \E r \in FetchResults : \E p \in PayloadsOf(r) : WorkerFetch(r, p)
    \/ WorkerAcquire
    \/ WorkerMerge
    \/ WorkerSweep
    \/ WorkerGc
    \/ wpc = "persist" /\ \E r \in PersistResults : WorkerPersist(r)
    \/ ReaderAcquire
    \/ rpc = "locked" /\ \E q \in Requests : ReaderRead(q)
    \/ ReaderReturn

Spec == Init /\ [][Next]_vars

\* ------------------------------------------------ the worker without end
\* LiveSpec follows the worker for as long as the application runs, with no
\* last second.  Time is counted from the present: the clock keeps its
\* value, and a sleep of d seconds moves every timestamp of the store d
\* seconds into the past.  The sweep and the garbage collection compare a
\* timestamp with now - stale_after_seconds and now - lost_gc_seconds only,
\* so the timestamps older than both cutoffs are kept at one value.
Max(a, b) == IF a > b THEN a ELSE b

\* the timestamp t after d more seconds
rebase(t, d) == Max(t - d, clock - lost_gc_seconds - 1)

\* the store after d more seconds
aged(store, d) ==
    [k \in DOMAIN store |->
        [store[k] EXCEPT !.first_seen = rebase(@, d), !.last_seen = rebase(@, d)]]

\* asyncio.sleep returns after sleep_for + jitter seconds; the next cycle
\* takes its now and starts the fetch.
LiveWake(jitter) ==
    /\ life = "running"
    /\ wpc \in {"startsleep", "sleep"}
    /\ events' = aged(events, sleep_for + jitter)
    /\ now' = clock
    /\ wpc' = "fetch"
    /\ fetched' = "pending"
    /\ client' = get_client(client)
    /\ last_cycle' = [last_cycle EXCEPT !.fetch = "none", !.persist = "none"]
    /\ UNCHANGED << call_vars, heap, clock, life, config_vars, events_order, lock, candidates,
                    active_updates, lost_updates, pre, payload, backoff, sleep_for,
                    reader_vars >>

LiveInit == Init /\ poller_enabled

LiveNext ==
    \/ life = "startup" /\ \E c \in BOOLEAN, h \in BootSnapshots : Startup(c, h)
    \/ \E j \in 0..JitterMax : LiveWake(j)
    \/ wpc = "fetch" /\ \E r \in FetchResults : \E p \in PayloadsOf(r) : WorkerFetch(r, p)
    \/ WorkerAcquire
    \/ WorkerMerge
    \/ WorkerSweep
    \/ WorkerGc
    \/ wpc = "persist" /\ \E r \in PersistResults : WorkerPersist(r)

\* ------------------------------------------- the cycles and their payload
\* CycleSpec follows the worker alone, cycle after cycle, and keeps the
\* decoded payload of the cycle in progress on record.
CycleNext ==
    \/ life = "startup" /\ \E c \in BOOLEAN, h \in BootSnapshots : Startup(c, h)
    \/ \E j \in 0..JitterMax : WorkerWake(j)
    \/ wpc = "fetch" /\ \E r \in FetchResults : \E p \in PayloadsOf(r) :
                            WorkerFetchRecorded(r, p)
    \/ WorkerAcquire
    \/ WorkerMerge
    \/ WorkerSweep
    \/ WorkerGc
    \/ wpc = "persist" /\ \E r \in PersistResults : WorkerPersist(r)

CycleSpec == Init /\ [][CycleNext]_vars

\* The event loop resumes the worker whenever it can run: a sleep ends, the
\* fetch and the bulk write end within their timeouts, and the lock, which
\* no other task of this specification takes, is free.
LiveSpec == LiveInit /\ [][LiveNext]_vars /\ WF_vars(LiveNext)

\* ------------------------------------------------ the texts of the records
\* The filter and the extractor are functions of their argument alone.  Each
\* has a specification that draws the argument in its initial state and
\* whose one step is the call.
\*
\* A text is a sequence of characters: one letter in its two cases and the
\* space.  The value of a field is a sequence: empty for null (or an absent
\* key), else the one text.
Chars == {"D", "d", " "}

Texts == SeqsUpTo(Chars, MaxTextLen)

FieldValues == { <<>> } \cup { << t >> : t \in Texts }

\* value or other, as Python evaluates it: null and the empty text are falsy
py_or(value, other) == IF value # <<>> /\ value[1] # <<>> THEN value ELSE other

\* str(value or "")
str_or_empty(value) == py_or(value, << <<>> >>)[1]

\* str.strip()
RECURSIVE lstrip(_)
lstrip(t) == IF t # <<>> /\ Head(t) = " " THEN lstrip(Tail(t)) ELSE t

RECURSIVE rstrip(_)
rstrip(t) ==
    IF t # <<>> /\ t[Len(t)] = " " THEN rstrip(SubSeq(t, 1, Len(t) - 1)) ELSE t

strip(t) == rstrip(lstrip(t))

\* str.lower()
lower(t) == [i \in 1..Len(t) |-> IF t[i] = "D" THEN "d" ELSE t[i]]

\* a _normalize_text that does not trim
normalize_untrimmed(value) == lower(str_or_empty(value))

\* _normalize_text: str(value or "").strip().lower()
normalize(value) == lower(strip(str_or_empty(value)))

\* The texts that stand for "DGT3.0", "advertencia" and "vehículo detenido":
\* the source tag is written in upper case, the type and the cause in lower
\* case.
source_target == << "D" >>
type_target == << "d" >>
cause_target == << "d" >>

\* The records that the filter is called on: the source tag, the type and
\* the cause with the alternate keys of the last two.
FilterRecords ==
    [fuente : FieldValues, subtipoVialidad : FieldValues, tipo : { <<>>, << type_target >> },
     subcausa : FieldValues, causa : { <<>>, << cause_target >> }]

\* _is_v16_candidate, on the texts of the fields
is_candidate(raw) ==
    /\ strip(str_or_empty(raw.fuente)) = source_target
    /\ normalize(py_or(raw.subtipoVialidad, raw.tipo)) = lower(type_target)
    /\ normalize(py_or(raw.subcausa, raw.causa)) = lower(cause_target)

\* a call on its own leaves the application as constructed
FilterInit ==
    /\ Constructed
    /\ fn_arg \in FilterRecords
    /\ fn_result = NoCall

CallFilter ==
    /\ fn_arg \in FilterRecords
    /\ fn_result = NoCall
    /\ fn_result' = << is_candidate(fn_arg) >>
    /\ UNCHANGED << fn_arg, heap, client, clock, life, config_vars, store_vars, lock, wpc, cycle_vars,
                    loop_vars, reader_vars >>

FilterNext == CallFilter

FilterSpec == FilterInit /\ [][FilterNext]_vars

\* ---------------------------------------------------- the decoded payloads
\* The elements of a JSON list: objects (two, to tell their order) and a
\* value that is not an object.
Items ==
    { [object |-> TRUE, name |-> "x"], [object |-> TRUE, name |-> "y"],
      [object |-> FALSE, name |-> "1"] }

\* the keys that _extract_records probes, in its order
ProbeOrder == << "situationsRecords", "incidencias", "features", "data" >>

ProbeKeys == { ProbeOrder[i] : i \in 1..Len(ProbeOrder) }

\* What payload.get(key) gives: None for an absent key, a value that is not
\* a list (a text, a number, an object, null), or a list.
KeyValues ==
    { [kind |-> "absent"], [kind |-> "scalar"] }
    \cup { [kind |-> "list", items |-> l] : l \in SeqsUpTo(Items, MaxKeyedItems) }

\* The decoded payloads: a list, an object with its values under the probed
\* keys, or another JSON value.
ExtractPayloads ==
    { [kind |-> "list", items |-> l] : l \in SeqsUpTo(Items, MaxItems) }
    \cup { [kind |-> "dict", fields |-> f] : f \in [ProbeKeys -> KeyValues] }
    \cup { [kind |-> "other"] }

\* a comprehension that keeps every item
all_items(items) == items

\* [item for item in items if isinstance(item, dict)]
RECURSIVE objects_of(_)
objects_of(items) ==
    IF items = <<>> THEN <<>>
    ELSE IF Head(items).object
         THEN << Head(items) >> \o objects_of(Tail(items))
         ELSE objects_of(Tail(items))

\* the loop of _extract_records over the keys, from the i-th on
RECURSIVE probe(_, _)
probe(fields, i) ==
    IF i > Len(ProbeOrder) THEN <<>>
    ELSE IF fields[ProbeOrder[i]].kind = "list"
         THEN objects_of(fields[ProbeOrder[i]].items)
         ELSE probe(fields, i + 1)

\* _extract_records
extract_records(data) ==
    CASE data.kind = "list" -> objects_of(data.items)
      [] data.kind = "dict" -> probe(data.fields, 1)
      [] OTHER -> <<>>

ExtractInit ==
    /\ Constructed
    /\ fn_arg \in ExtractPayloads
    /\ fn_result = NoCall

CallExtract ==
    /\ fn_arg \in ExtractPayloads
    /\ fn_result = NoCall
    /\ fn_result' = << extract_records(fn_arg) >>
    /\ UNCHANGED << fn_arg, heap, client, clock, life, config_vars, store_vars, lock, wpc, cycle_vars,
                    loop_vars, reader_vars >>

ExtractNext == CallExtract

ExtractSpec == ExtractInit /\ [][ExtractNext]_vars

\* ------------------------------------------------------------ definitions
\* the ids of the candidates of the cycle in progress
CandidateIds == { candidates[i].id : i \in 1..Len(candidates) }

\* the first and the last candidate of the cycle that carry id k
FirstCandidate(k) ==
    candidates[CHOOSE i \in 1..Len(candidates) :
        candidates[i].id = k /\ \A j \in 1..(i - 1) : candidates[j].id # k]

LastCandidate(k) ==
    candidates[CHOOSE i \in 1..Len(candidates) :
        candidates[i].id = k /\ \A j \in (i + 1)..Len(candidates) : candidates[j].id # k]

\* the keys that a step leaves in the store
Kept == (DOMAIN events) \cap (DOMAIN events')

\* the store as the last completed critical section (or the startup) left it
committed ==
    IF wpc \in {"merge", "sweep", "gc"}
    THEN pre
    ELSE [events |-> events, order |-> events_order]

\* ---------------------------------------------------------------------- C1
\* the store holds one entry per id: no two keys hold events of the same
\* id, and the key order lists every key once
OneEntryPerId ==
    /\ \A k1, k2 \in DOMAIN events : events[k1].id = events[k2].id => k1 = k2
    /\ Len(events_order) = Cardinality(DOMAIN events)
    /\ \A k \in DOMAIN events : \E i \in 1..Len(events_order) : events_order[i] = k

\* C1 as stated: when the merge has ended, every candidate whose id was in
\* the store finds its entry with last_seen = now, raw = the raw of that
\* candidate and status active, every other candidate is in the store as
\* active, and the store holds one entry per id.
C1_MergeEveryCandidate ==
    /\ OneEntryPerId
    /\ wpc = "sweep" =>
         \A i \in 1..Len(candidates) :
            LET c == candidates[i]
            IN /\ c.id \in DOMAIN events
               /\ events[c.id].estado = "active"
               /\ c.id \in DOMAIN pre.events =>
                    /\ events[c.id].last_seen = now
                    /\ events[c.id].raw = c.raw

\* C1 amended: when the merge has ended, every id of a candidate is in the
\* store with last_seen = now, status active (also when it was lost before)
\* and raw = the raw of the last candidate of the cycle with that id; an id
\* that was not in the store holds the first candidate of that id with that
\* raw; the store holds one entry per id in every state.
C1_Merge ==
    /\ OneEntryPerId
    /\ wpc = "sweep" =>
         \A k \in CandidateIds :
            /\ k \in DOMAIN events
            /\ events[k].id = k
            /\ events[k].estado = "active"
            /\ events[k].last_seen = now
            /\ events[k].raw = LastCandidate(k).raw
            /\ k \notin DOMAIN pre.events =>
                 events[k] = [FirstCandidate(k) EXCEPT !.raw = LastCandidate(k).raw]

\* the merge has ended for an id that was lost and that two candidates of
\* the cycle with different raw carry
C1_Witness ==
    /\ wpc = "sweep"
    /\ Len(candidates) = 2
    /\ candidates[1].id = candidates[2].id
    /\ candidates[1].raw # candidates[2].raw
    /\ candidates[1].id \in DOMAIN pre.events
    /\ pre.events[candidates[1].id].estado = "lost"
    /\ events[candidates[1].id].estado = "active"

\* ---------------------------------------------------------------------- C2
\* C2: when the sweep has ended, every entry that was active when the cycle
\* began, with last_seen before now - stale_after_seconds, and whose id is
\* not among the candidates, is lost; when the cycle has ended it is lost or
\* removed, and every id among the candidates is in the store as active.
C2_Sweep ==
    /\ wpc \in {"gc", "persist"} =>
         \A k \in DOMAIN pre.events :
            ( /\ pre.events[k].estado = "active"
              /\ pre.events[k].last_seen < now - stale_after_seconds
              /\ k \notin CandidateIds )
            => IF k \in DOMAIN events THEN events[k].estado = "lost" ELSE wpc = "persist"
    /\ wpc \in {"gc", "persist"} =>
         \A k \in CandidateIds : k \in DOMAIN events /\ events[k].estado = "active"

\* the sweep has ended in a cycle that began with two active entries older
\* than the threshold, one re-observed and one not
C2_Witness ==
    /\ wpc = "gc"
    /\ \E k \in DOMAIN pre.events :
          /\ pre.events[k].estado = "active"
          /\ pre.events[k].last_seen < now - stale_after_seconds
          /\ k \notin CandidateIds
          /\ events[k].estado = "lost"
    /\ \E k \in DOMAIN pre.events :
          /\ pre.events[k].estado = "active"
          /\ pre.events[k].last_seen < now - stale_after_seconds
          /\ k \in CandidateIds
          /\ events[k].estado = "active"

\* ---------------------------------------------------------------------- C3
\* C3: the garbage collection of a cycle removes every entry that is lost
\* with last_seen before now - lost_gc_seconds, and leaves every other
\* entry (lost and not older than the cutoff, or active) as it was.
C3_Gc ==
    [][ (wpc = "gc" /\ wpc' = "persist") =>
          \A k \in DOMAIN events :
             IF events[k].estado = "lost" /\ events[k].last_seen < now - lost_gc_seconds
             THEN k \notin DOMAIN events'
             ELSE k \in DOMAIN events' /\ events'[k] = events[k] ]_vars

\* a cycle has ended whose garbage collection removed an entry and kept a
\* lost entry whose last_seen is exactly at the cutoff
C3_Witness ==
    /\ wpc = "persist"
    /\ \E k \in DOMAIN pre.events : k \notin CandidateIds /\ k \notin DOMAIN events
    /\ \E k \in DOMAIN events :
          events[k].estado = "lost" /\ events[k].last_seen = now - lost_gc_seconds

\* ---------------------------------------------------------------------- C4
\* C4 as stated: an entry that is lost and stays in the store is lost after
\* every step.
C4_LostStaysLost ==
    [][ \A k \in Kept : events[k].estado = "lost" => events'[k].estado = "lost" ]_vars

\* C4 amended: the status of an entry that stays in the store changes from
\* active to lost in the staleness sweep only, and from lost to active only
\* in a merge whose candidates carry its id.
C4_Transitions ==
    [][ \A k \in Kept :
          /\ (events[k].estado = "active" /\ events'[k].estado = "lost")
               => wpc = "sweep"
          /\ (events[k].estado = "lost" /\ events'[k].estado = "active")
               => (wpc = "merge" /\ k \in CandidateIds) ]_vars

\* a merge has made a lost entry active again while another lost entry,
\* not re-observed, stayed lost
C4_Witness ==
    /\ wpc = "sweep"
    /\ \E k \in DOMAIN pre.events :
          /\ pre.events[k].estado = "lost"
          /\ k \in CandidateIds
          /\ events[k].estado = "active"

\* ---------------------------------------------------------------------- C5
\* C5: every step leaves the id and the first_seen of every entry that
\* stays in the store unchanged.
C5_IdAndFirstSeenFixed ==
    [][ \A k \in Kept :
          /\ events'[k].id = events[k].id
          /\ events'[k].first_seen = events[k].first_seen ]_vars

\* a merge has reactivated a lost entry from a candidate whose own
\* first_seen differs from the stored one
C5_Witness ==
    /\ wpc = "sweep"
    /\ \E k \in CandidateIds :
          /\ k \in DOMAIN pre.events
          /\ pre.events[k].estado = "lost"
          /\ FirstCandidate(k).first_seen # pre.events[k].first_seen
          /\ events[k].first_seen = pre.events[k].first_seen

\* ---------------------------------------------------------------------- C6
\* C6: every entry of the store has first_seen <= last_seen, and every
\* candidate of a cycle has first_seen <= last_seen = now.
C6_FirstSeenBeforeLastSeen ==
    /\ \A k \in DOMAIN events : events[k].first_seen <= events[k].last_seen
    /\ \A i \in 1..Len(candidates) :
          /\ candidates[i].first_seen <= candidates[i].last_seen
          /\ candidates[i].last_seen = now

\* the store holds an entry inserted from a record whose start timestamp is
\* later than now, and an entry whose start timestamp is earlier
C6_Witness ==
    /\ \E k \in DOMAIN events :
          /\ events[k].raw.fechaInicio = "tfuture"
          /\ parse_datetime("tfuture") > events[k].last_seen
          /\ events[k].first_seen = events[k].last_seen
    /\ \E i \in 1..Len(candidates) :
          candidates[i].raw.fechaInicio = "t0" /\ candidates[i].first_seen < now

\* ---------------------------------------------------------------------- C7
\* C7: no step decreases the last_seen of an entry that stays in the store
\* (whatever its status before and after the step).
C7_LastSeenMonotone ==
    [][ \A k \in Kept : events'[k].last_seen >= events[k].last_seen ]_vars

\* a merge has re-observed an active entry that was loaded at startup
\* (the only entries whose last_seen is not after the start of the process)
C7_Witness ==
    /\ wpc = "sweep"
    /\ \E k \in CandidateIds :
          /\ k \in DOMAIN pre.events
          /\ pre.events[k].estado = "active"
          /\ pre.events[k].last_seen <= BootClock
          /\ FirstCandidate(k).first_seen < pre.events[k].last_seen
          /\ events[k].last_seen > pre.events[k].last_seen

\* ---------------------------------------------------------------------- C8
\* C8: what a handler has read under the lock is what it would read from the
\* store as the last completed critical section left it: the store before
\* the three phases of the cycle in progress, or after all three.
C8_ReadersSeeWholeCycles ==
    rpc = "read" =>
        snapshot.value = read_store(snapshot.req, committed.order, committed.events)

\* a handler has read the store while the worker, with candidates that change
\* the store, waits for the lock
C8_Witness ==
    /\ rpc = "read"
    /\ snapshot.req.kind = "list"
    /\ wpc = "acquire"
    /\ lock = "reader"
    /\ \E k \in CandidateIds : k \notin DOMAIN events

\* ---------------------------------------------------------------------- C9
\* C9: a cycle that succeeds leaves backoff at its base and sleep_for at the
\* poll interval; a cycle that fails leaves backoff at min(2 x backoff,
\* maximum) and sleep_for at that backoff, which is at most the maximum;
\* the sleep that follows lasts sleep_for plus a jitter of 0..JitterMax.
C9_Backoff ==
    [][ /\ (wpc = "persist" /\ wpc' = "sleep") =>
             /\ backoff' = poller_backoff_base_seconds
             /\ sleep_for' = poll_interval_seconds
        /\ (wpc = "fetch" /\ wpc' = "sleep") =>
             /\ backoff' = Min(2 * backoff, poller_backoff_max_seconds)
             /\ sleep_for' = backoff'
             /\ sleep_for' <= poller_backoff_max_seconds
        /\ (wpc = "sleep" /\ wpc' = "fetch") =>
             /\ clock' - clock >= sleep_for
             /\ clock' - clock <= sleep_for + JitterMax ]_vars

\* the worker sleeps after a third failed cycle in a row, whose doubled
\* backoff was capped
C9_Witness ==
    /\ wpc = "sleep"
    /\ last_cycle.ended = "failed"
    /\ last_cycle.failures = 3
    /\ backoff = poller_backoff_max_seconds
    /\ sleep_for = poller_backoff_max_seconds

\* --------------------------------------------------------------------- C10
\* C10 as stated: after a cycle whose fetch failed (non-2xx status, network
\* error, timeout) the worker sleeps the backoff delay, which is above its
\* base, and not the poll interval.
C10_FetchFailureBacksOff ==
    (wpc = "sleep" /\ last_cycle.fetch \in FetchFailures) =>
        /\ last_cycle.ended = "failed"
        /\ sleep_for = backoff
        /\ backoff > poller_backoff_base_seconds

\* --------------------------------------------------------------------- C11
\* C11 as stated: when the critical section of a cycle whose fetch failed
\* (non-2xx status, network error, timeout) has ended, the store and its key
\* order are what they were before the cycle.
C11_FailedFetchLeavesStore ==
    (wpc = "persist" /\ fetched \in FetchFailures) =>
        /\ events = pre.events
        /\ events_order = pre.order

\* --------------------------------------------------------------------- C12
\* C12: a cycle whose response body no strategy decodes runs with zero
\* records (no candidate, no active update) up to the end of its critical
\* section, and when it has ended the cycle has succeeded: backoff is at its
\* base and the worker sleeps the poll interval.
C12_UndecodableIsEmptyCycle ==
    /\ (wpc \in {"acquire", "merge", "sweep", "gc", "persist"} /\ fetched = "undecodable") =>
          candidates = <<>> /\ active_updates = <<>>
    /\ (wpc = "sleep" /\ last_cycle.fetch = "undecodable") =>
          /\ last_cycle.ended = "succeeded"
          /\ last_cycle.failures = 0
          /\ backoff = poller_backoff_base_seconds
          /\ sleep_for = poll_interval_seconds

\* the worker sleeps after a cycle whose body was undecodable, with entries
\* in the store
C12_Witness ==
    /\ wpc = "sleep"
    /\ last_cycle.fetch = "undecodable"
    /\ last_cycle.ended = "succeeded"
    /\ events # EmptyStore

\* --------------------------------------------------------------------- C13
\* C13: the step that ends a persistence hand-off whose bulk write raised or
\* reported errors leaves the store and its key order as the critical
\* section of the cycle left them, and ends the cycle as a success: backoff
\* at its base, the poll interval as the next sleep, no failure counted.
C13_PersistFailureContained ==
    [][ (wpc = "persist" /\ wpc' = "sleep" /\ last_cycle'.persist \in {"errors", "raised"}) =>
          /\ events' = events
          /\ events_order' = events_order
          /\ last_cycle'.ended = "succeeded"
          /\ last_cycle'.failures = 0
          /\ backoff' = poller_backoff_base_seconds
          /\ sleep_for' = poll_interval_seconds ]_vars

\* the worker sleeps after a cycle that changed the store and whose bulk
\* write raised
C13_Witness ==
    /\ wpc = "sleep"
    /\ last_cycle.persist = "raised"
    /\ last_cycle.ended = "succeeded"
    /\ events # EmptyStore

\* --------------------------------------------------------------------- C14
\* the positions of the worker inside _polling_worker: the first sleep and
\* the loop
LoopPositions ==
    {"startsleep", "fetch", "acquire", "merge", "sweep", "gc", "persist", "sleep"}

\* C14: while the application runs with polling enabled the worker is inside
\* its loop, whatever cycles have failed or succeeded; the worker task has
\* ended only when the shutdown has cancelled it; and with polling disabled
\* there is no worker task at any time.
C14_WorkerKeepsLooping ==
    /\ (life = "running" /\ poller_enabled) => wpc \in LoopPositions
    /\ wpc = "done" => (poller_enabled /\ life \in {"stopping", "stopped"})
    /\ ~poller_enabled => wpc = "none"

\* the worker has started a cycle after two failed cycles in a row
C14_Witness ==
    /\ life = "running"
    /\ wpc = "fetch"
    /\ last_cycle.ended = "failed"
    /\ last_cycle.failures = 2

\* --------------------------------------------------------------------- C15
\* the store that the three phases of a cycle make of the store before it
cycle_result(before, cands, at) ==
    LET m == merge_loop(cands, 1, before.events, before.order, <<>>, at)
        s == sweep_loop(m.order, 1, m.events, <<>>, at)
        g == gc_events(m.order, 1, s.events, at)
    IN [events |-> g.events, order |-> g.order]

\* C15: the step in which the cancelled worker ends is taken outside the
\* critical section and leaves the store alone; the cycle in progress has
\* then either not taken the lock (the store is as it was before the cycle)
\* or has ended all three phases (the store is the whole result of the
\* cycle); and the worker that has ended does not hold the lock.
C15_CancelOutsideCriticalSection ==
    [][ wpc' = "done" =>
          /\ lock' # "worker"
          /\ wpc # "done" =>
               /\ wpc \notin {"merge", "sweep", "gc"}
               /\ lock # "worker"
               /\ UNCHANGED store_vars
               /\ \/ pre = NoStore /\ wpc # "persist"
                  \/ /\ wpc = "persist"
                     /\ [events |-> events, order |-> events_order]
                          = cycle_result(pre, candidates, now) ]_vars

\* the worker was cancelled in the persistence hand-off of a cycle that
\* changed the store
C15_Witness ==
    /\ wpc = "done"
    /\ life = "stopping"
    /\ fetched = "ok"
    /\ active_updates # <<>>
    /\ events # pre.events
    /\ lock = "free"

\* --------------------------------------------------------------------- C16
\* C16: the worker holds the lock in the three phases of the critical
\* section only: not while it sleeps, not during the fetch (it takes the
\* lock after the fetch has returned), not during the persistence hand-off
\* (which starts after the release); a handler that asks for the lock while
\* the worker is in one of those can take it.
C16_NoLockAcrossIO ==
    /\ lock = "worker" <=> wpc \in {"merge", "sweep", "gc"}
    /\ wpc \in {"fetch", "acquire"} => pre = NoStore
    /\ (wpc \in {"startsleep", "fetch", "persist", "sleep"} /\ life = "running" /\ rpc = "idle")
          => ENABLED ReaderAcquire

\* a handler has read the store under the lock while the worker is in the
\* bulk write of a cycle that changed the store
C16_Witness ==
    /\ wpc = "persist"
    /\ es_client
    /\ active_updates # <<>>
    /\ lock = "reader"
    /\ rpc = "read"
    /\ snapshot.value = read_store(snapshot.req, events_order, events)

\* --------------------------------------------------------------------- C17
\* a cycle whose candidates carry id k is about to merge them
Reobserved(k) == wpc = "merge" /\ k \in CandidateIds

\* C17 as stated: while the worker keeps running cycles, every entry of the
\* store is re-observed by a later cycle or is removed in the end, and every
\* active entry is re-observed, becomes lost or is removed in the end.
C17_UnobservedEntriesLeave ==
    \A k \in Ids :
        /\ (k \in DOMAIN events) ~> (k \notin DOMAIN events \/ Reobserved(k))
        /\ (k \in DOMAIN events /\ events[k].estado = "active")
              ~> (k \notin DOMAIN events \/ events[k].estado = "lost" \/ Reobserved(k))

\* --------------------------------------------------------------------- C18
\* the records of the payload of the cycle that pass the candidate filter
\* and that the normalizer turns into an event
Accepted ==
    { i \in 1..Len(payload) :
        is_v16_candidate(payload[i]) /\ parse_event(payload[i], now) # <<>> }

AcceptedIds == { event_key(payload[i]) : i \in Accepted }

\* the first accepted record of the payload with id k
FirstAccepted(k) ==
    payload[CHOOSE i \in Accepted :
        event_key(payload[i]) = k /\ \A j \in Accepted : event_key(payload[j]) = k => i <= j]

\* the ids that the cycle garbage-collects: not re-observed, lost or stale,
\* and last seen before the retention cutoff
Collected ==
    { k \in DOMAIN pre.events :
        /\ k \notin AcceptedIds
        /\ pre.events[k].estado = "lost" \/ pre.events[k].last_seen < now - stale_after_seconds
        /\ pre.events[k].last_seen < now - lost_gc_seconds }

\* C18: when the critical section of a cycle has ended, the ids of the store
\* are the ids before the cycle and the ids of the accepted records of the
\* payload, without the garbage-collected ids; an entry whose id no accepted
\* record carries was in the store before, with the same last_seen,
\* first_seen and raw (whatever other records of the payload carry its id);
\* and an entry inserted by the cycle from a record without a parsable start
\* timestamp has first_seen = last_seen = now.
C18_StoreAfterCycle ==
    wpc = "persist" =>
        /\ DOMAIN events = ((DOMAIN pre.events) \cup AcceptedIds) \ Collected
        /\ \A k \in (DOMAIN events) \ AcceptedIds :
              /\ k \in DOMAIN pre.events
              /\ events[k].last_seen = pre.events[k].last_seen
              /\ events[k].first_seen = pre.events[k].first_seen
              /\ events[k].raw = pre.events[k].raw
        /\ \A k \in AcceptedIds \ DOMAIN pre.events :
              parse_datetime(FirstAccepted(k).fechaInicio) = None
                 => events[k].first_seen = now /\ events[k].last_seen = now

\* a cycle has ended that removed an entry whose id a record outside the
\* filter carried, and that inserted an entry from a record without a
\* parsable start timestamp
C18_Witness ==
    /\ wpc = "persist"
    /\ \E i \in 1..Len(payload) :
          /\ ~is_v16_candidate(payload[i])
          /\ event_key(payload[i]) \in Collected
    /\ \E k \in AcceptedIds \ DOMAIN pre.events :
          /\ parse_datetime(FirstAccepted(k).fechaInicio) = None
          /\ events[k].first_seen = events[k].last_seen

\* --------------------------------------------------------------------- C19
\* the type and the cause that the filter reads, each from its key or the
\* alternate one
type_field(raw) == py_or(raw.subtipoVialidad, raw.tipo)
cause_field(raw) == py_or(raw.subcausa, raw.causa)

\* equal but for case, surrounding whitespace and null
same_text(value, target) == lower(strip(str_or_empty(value))) = lower(target)

\* C19 as stated: the filter retains a record if and only if its source tag,
\* its type and its cause equal their targets, each compared without regard
\* to case and surrounding whitespace, a null field being empty.
C19_FilterIgnoresCase ==
    fn_result # NoCall =>
        fn_result[1] = ( /\ same_text(fn_arg.fuente, source_target)
                         /\ same_text(type_field(fn_arg), type_target)
                         /\ same_text(cause_field(fn_arg), cause_target) )

\* C19 amended: the filter retains a record if and only if its source tag,
\* trimmed of surrounding whitespace (null being empty), equals the target
\* source in the same case, and its type and its cause equal their targets
\* without regard to case and surrounding whitespace (null being empty).
C19_Filter ==
    fn_result # NoCall =>
        fn_result[1] = ( /\ strip(str_or_empty(fn_arg.fuente)) = source_target
                         /\ same_text(type_field(fn_arg), type_target)
                         /\ same_text(cause_field(fn_arg), cause_target) )

\* the filter has rejected a record whose type and cause match in another
\* case, with whitespace around, and whose source tag is the target in
\* another case
C19_Witness ==
    /\ fn_result = << FALSE >>
    /\ same_text(fn_arg.fuente, source_target)
    /\ str_or_empty(fn_arg.fuente) # source_target
    /\ same_text(type_field(fn_arg), type_target)
    /\ str_or_empty(type_field(fn_arg)) # type_target
    /\ same_text(cause_field(fn_arg), cause_target)

\* --------------------------------------------------------------------- C20
IsObject(item) == item.object

\* the places in the probe order of the keys whose value is a list, and of
\* those whose value is a list of objects alone
ListKeys(fields) == { i \in 1..Len(ProbeOrder) : fields[ProbeOrder[i]].kind = "list" }

ObjectListKeys(fields) ==
    { i \in ListKeys(fields) :
        \A j \in 1..Len(fields[ProbeOrder[i]].items) : IsObject(fields[ProbeOrder[i]].items[j]) }

\* the first place of a non-empty set of places
First(places) == CHOOSE i \in places : \A j \in places : i <= j

\* C20 as stated: for a list the extractor returns its objects in order; for
\* a keyed payload it returns the value of the first key, in the probe
\* order, whose value is a list of objects, passing over every key whose
\* value is not one, and the empty list when there is no such key; for any
\* other payload it returns the empty list.
C20_FirstListOfObjects ==
    fn_result # NoCall =>
        fn_result[1] =
            CASE fn_arg.kind = "list" -> SelectSeq(fn_arg.items, IsObject)
              [] fn_arg.kind = "dict" ->
                    IF ObjectListKeys(fn_arg.fields) = {} THEN <<>>
                    ELSE fn_arg.fields[ProbeOrder[First(ObjectListKeys(fn_arg.fields))]].items
              [] OTHER -> <<>>

\* C20 amended: for a list the extractor returns its objects in order; for
\* a keyed payload it returns the objects, in order, of the value of the
\* first key in the probe order whose value is a list (whatever its
\* elements), passing over the keys that are absent or whose value is not a
\* list, and the empty list when no key holds a list; for any other payload
\* it returns the empty list; every call returns a list of objects.
C20_Extract ==
    fn_result # NoCall =>
        /\ fn_result[1] =
              CASE fn_arg.kind = "list" -> SelectSeq(fn_arg.items, IsObject)
                [] fn_arg.kind = "dict" ->
                      IF ListKeys(fn_arg.fields) = {} THEN <<>>
                      ELSE SelectSeq(fn_arg.fields[ProbeOrder[First(ListKeys(fn_arg.fields))]].items,
                                     IsObject)
                [] OTHER -> <<>>
        /\ \A i \in 1..Len(fn_result[1]) : IsObject(fn_result[1][i])

\* the extractor has returned the empty list for a keyed payload whose first
\* list holds a value that is not an object, while a later key holds a list
\* of objects
C20_Witness ==
    /\ fn_result = << <<>> >>
    /\ fn_arg.kind = "dict"
    /\ ObjectListKeys(fn_arg.fields) # {}
    /\ First(ListKeys(fn_arg.fields)) < First(ObjectListKeys(fn_arg.fields))
    /\ fn_arg.fields[ProbeOrder[First(ObjectListKeys(fn_arg.fields))]].items # <<>>
    /\ fn_arg.fields[ProbeOrder[1]].kind = "scalar"

\* ------------------------------------------------------ the payload decoder
\* What the decoder reads of a response: the media types that its lowered
\* content-type header names, whether the body is blank (empty once
\* stripped), whether it is made of base64 characters alone, what json.loads
\* gives for the body (empty when it raises) and what the base64 and XOR
\* decoding gives: whether it yields a text and what json.loads gives for
\* that text.  The two parsed values differ, to tell the strategies apart.
MediaTypes == { "application/json", "text/plain" }

ContentTypes == SUBSET MediaTypes

JsonOutcomes == { <<>>, << "direct" >> }

XorOutcomes ==
    { [decoded |-> FALSE, json |-> <<>>], [decoded |-> TRUE, json |-> <<>>],
      [decoded |-> TRUE, json |-> << "decoded" >>] }

\* a blank body is not base64, is not JSON and decodes to no JSON
Responses ==
    [content_type : ContentTypes, blank : { FALSE }, base64 : BOOLEAN,
     json : JsonOutcomes, xor : XorOutcomes]
    \cup [content_type : ContentTypes, blank : { TRUE }, base64 : { FALSE },
          json : { <<>> }, xor : { x \in XorOutcomes : x.json = <<>> }]

\* how a call ends: with a value (empty for None) or with an exception, after
\* the strategies it has tried
returned(value, tried) == [raised |-> FALSE, value |-> value, tried |-> tried]

raised_at(tried) == [raised |-> TRUE, value |-> <<>>, tried |-> tried]

\* a decoder whose first strategy alone is guarded
falls_through_first(step) == step = 1

\* the except clause of each strategy catches what the strategy raises
falls_through(step) == TRUE

\* the last strategy: json.loads of a body that is not blank
plain_json(r, tried) ==
    IF r.blank THEN returned(<<>>, tried)
    ELSE IF r.json # <<>> THEN returned(r.json, tried \o << 3 >>)
    ELSE IF falls_through(3) THEN returned(<<>>, tried \o << 3 >>)
    ELSE raised_at(tried \o << 3 >>)

\* the second strategy: base64, XOR and json.loads
xor_base64(r, tried) ==
    IF ~r.blank /\ ("text/plain" \in r.content_type \/ r.base64)
    THEN IF r.xor.decoded /\ r.xor.json # <<>>
         THEN returned(r.xor.json, tried \o << 2 >>)
         ELSE IF falls_through(2) THEN plain_json(r, tried \o << 2 >>)
         ELSE raised_at(tried \o << 2 >>)
    ELSE plain_json(r, tried)

\* _parse_etraffic_payload
parse_etraffic_payload(r) ==
    IF "application/json" \in r.content_type
    THEN IF r.json # <<>> THEN returned(r.json, << 1 >>)
         ELSE IF falls_through(1) THEN xor_base64(r, << 1 >>)
         ELSE raised_at(<< 1 >>)
    ELSE xor_base64(r, <<>>)

DecodeInit ==
    /\ Constructed
    /\ fn_arg \in Responses
    /\ fn_result = NoCall

CallDecode ==
    /\ fn_arg \in Responses
    /\ fn_result = NoCall
    /\ fn_result' = << parse_etraffic_payload(fn_arg) >>
    /\ UNCHANGED << fn_arg, heap, client, clock, life, config_vars, store_vars, lock, wpc, cycle_vars,
                    loop_vars, reader_vars >>

DecodeNext == CallDecode

DecodeSpec == DecodeInit /\ [][DecodeNext]_vars

\* --------------------------------------------------------------------- C21
\* the strategy that the content type or the shape of the body selects
json_selected(r) == "application/json" \in r.content_type
xor_selected(r) == "text/plain" \in r.content_type \/ r.base64

MaxValueLen == 2

JsonDigits == { 0, 7 }

JsonLetters == { 97, 98 }

JsonValues ==
    { [kind |-> "null", v |-> <<>>] }
    \cup { [kind |-> "bool", v |-> << b >>] : b \in { 0, 1 } }
    \cup { [kind |-> "number", v |-> << d >>] : d \in JsonDigits }
    \cup { [kind |-> "text", v |-> t] : t \in SeqsUpTo(JsonLetters, MaxValueLen) }
    \cup { [kind |-> "list", v |-> l] : l \in SeqsUpTo(JsonDigits, MaxValueLen) }

\* the digits of a list, separated by commas
RECURSIVE joined(_)
joined(l) ==
    IF l = <<>> THEN <<>>
    ELSE IF Len(l) = 1 THEN << 48 + l[1] >>
    ELSE << 48 + l[1], 44 >> \o joined(Tail(l))

\* the JSON text of a value, in its compact form
dumps(x) ==
    CASE x.kind = "null" -> << 110, 117, 108, 108 >>
      [] x.kind = "bool" ->
            IF x.v[1] = 1 THEN << 116, 114, 117, 101 >> ELSE << 102, 97, 108, 115, 101 >>
      [] x.kind = "number" -> << 48 + x.v[1] >>
      [] x.kind = "text" -> << 34 >> \o x.v \o << 34 >>
      [] x.kind = "list" -> << 91 >> \o joined(x.v) \o << 93 >>

\* json.loads on the texts of the model: the value whose JSON text it is
\* given, and nothing (it raises) for any other text
loads(text) ==
    LET parsed == { x \in JsonValues : dumps(x) = text }
    IN IF parsed = {} THEN <<>> ELSE << CHOOSE x \in parsed : TRUE >>

\* the exclusive or of two numbers of n bits
RECURSIVE xor(_, _, _)
xor(a, b, n) ==
    IF n = 0 THEN 0
    ELSE (((a % 2) + (b % 2)) % 2) + (2 * xor(a \div 2, b \div 2, n - 1))

\* the base64 alphabet: the code of the i-th character, and the place of a
\* code in the alphabet (None for a code outside it, the padding included)
b64_char(i) ==
    IF i < 26 THEN 65 + i
    ELSE IF i < 52 THEN 97 + (i - 26)
    ELSE IF i < 62 THEN 48 + (i - 52)
    ELSE IF i = 62 THEN 43 ELSE 47

b64_index(c) ==
    IF c \in 65..90 THEN c - 65
    ELSE IF c \in 97..122 THEN (c - 97) + 26
    ELSE IF c \in 48..57 THEN (c - 48) + 52
    ELSE IF c = 43 THEN 62
    ELSE IF c = 47 THEN 63
    ELSE None

\* base64.b64encode, with its padding
RECURSIVE b64encode(_)
b64encode(bytes) ==
    IF bytes = <<>> THEN <<>>
    ELSE IF Len(bytes) = 1
    THEN << b64_char(bytes[1] \div 4), b64_char((bytes[1] % 4) * 16), 61, 61 >>
    ELSE IF Len(bytes) = 2
    THEN << b64_char(bytes[1] \div 4),
            b64_char(((bytes[1] % 4) * 16) + (bytes[2] \div 16)),
            b64_char((bytes[2] % 16) * 4), 61 >>
    ELSE << b64_char(bytes[1] \div 4),
            b64_char(((bytes[1] % 4) * 16) + (bytes[2] \div 16)),
            b64_char(((bytes[2] % 16) * 4) + (bytes[3] \div 64)),
            b64_char(bytes[3] % 64) >> \o b64encode(SubSeq(bytes, 4, Len(bytes)))

\* a text without its trailing padding
RECURSIVE unpadded(_)
unpadded(text) ==
    IF text # <<>> /\ text[Len(text)] = 61
    THEN unpadded(SubSeq(text, 1, Len(text) - 1))
    ELSE text

\* the keys: the empty one, "K", "kK" and a key whose first character takes
\* two bytes
Keys == { <<>>, << 75 >>, << 107, 75 >>, << 195, 169 >> }

\* A payload as the upstream builds it: the JSON text of a value, each byte
\* combined with the first byte of a key, in base64 with its padding kept or
\* removed; xor_key is the key that the decoder is configured with.
Encodings ==
    [value : JsonValues, key : Keys \ { <<>> }, xor_key : Keys,
     padding : { "kept", "removed" }]

payload_of(e) ==
    LET text == dumps(e.value)
        encoded == b64encode([i \in 1..Len(text) |-> xor(text[i], e.key[1], 8)])
    IN IF e.padding = "removed" THEN unpadded(encoded) ELSE encoded

\* str.strip() on codes: the space, the tab and the line ends
Whitespace == { 9, 10, 13, 32 }

RECURSIVE strip_codes(_)
strip_codes(t) ==
    IF t # <<>> /\ Head(t) \in Whitespace THEN strip_codes(Tail(t))
    ELSE IF t # <<>> /\ t[Len(t)] \in Whitespace
    THEN strip_codes(SubSeq(t, 1, Len(t) - 1))
    ELSE t

\* _looks_base64
looks_base64(text) ==
    /\ strip_codes(text) # <<>>
    /\ \A i \in 1..Len(strip_codes(text)) :
          strip_codes(text)[i] = 61 \/ b64_index(strip_codes(text)[i]) # None

\* what a decoding gives: the bytes, or nothing when it raises
decoded_as(bytes) == [ok |-> TRUE, bytes |-> bytes]

undecodable == [ok |-> FALSE, bytes |-> <<>>]

after(byte, rest) == IF rest.ok THEN decoded_as(<< byte >> \o rest.bytes) ELSE rest

\* base64.b64decode as the library computes it without validation: it passes
\* over the characters outside the alphabet, stops at a padding that
\* completes a group of four, and raises when the text ends inside a group
RECURSIVE b64decode(_, _, _, _)
b64decode(t, quad, left, pads) ==
    IF t = <<>> THEN IF quad = 0 THEN decoded_as(<<>>) ELSE undecodable
    ELSE IF Head(t) = 61
    THEN IF quad >= 2 /\ quad + pads + 1 >= 4 THEN decoded_as(<<>>)
         ELSE b64decode(Tail(t), quad, left, IF quad >= 2 THEN pads + 1 ELSE pads)
    ELSE IF b64_index(Head(t)) = None THEN b64decode(Tail(t), quad, left, pads)
    ELSE LET i == b64_index(Head(t))
         IN CASE quad = 0 -> b64decode(Tail(t), 1, i, 0)
              [] quad = 1 -> after((left * 4) + (i \div 16), b64decode(Tail(t), 2, i % 16, 0))
              [] quad = 2 -> after((left * 16) + (i \div 4), b64decode(Tail(t), 3, i % 4, 0))
              [] quad = 3 -> after((left * 64) + i, b64decode(Tail(t), 0, 0, 0))

\* a decoder that leaves the text as it came
pad_count_none(missing) == 0

\* the padding that _decode_xor_base64 appends to a text whose length leaves
\* the remainder missing
pad_count(missing) == 4 - missing

\* bytes.decode("utf-8") on the texts of the model: a byte above 127 is not
\* part of any of them
utf8_valid(bytes) == \A i \in 1..Len(bytes) : bytes[i] < 128

\* _decode_xor_base64
decode_xor_base64(body, key) ==
    IF key = <<>> THEN undecodable
    ELSE LET text == strip_codes(body)
             missing == Len(text) % 4
             padded == IF missing # 0
                       THEN text \o [i \in 1..pad_count(missing) |-> 61]
                       ELSE text
             raw == b64decode(padded, 0, 0, 0)
             bytes == [i \in 1..Len(raw.bytes) |-> xor(raw.bytes[i], key[1], 8)]
         IN IF raw.ok /\ utf8_valid(bytes) THEN decoded_as(bytes) ELSE undecodable

\* the response that carries a body under a content type, as the decoder
\* configured with a key reads it
response_of(body, content_type, key) ==
    LET decoded == decode_xor_base64(body, key)
    IN [content_type |-> content_type,
        blank |-> strip_codes(body) = <<>>,
        base64 |-> looks_base64(body),
        json |-> loads(body),
        xor |-> [decoded |-> decoded.ok,
                 json |-> IF decoded.ok THEN loads(decoded.bytes) ELSE <<>>]]

RoundTripInit ==
    /\ Constructed
    /\ fn_arg \in Encodings
    /\ fn_result = NoCall

CallRoundTrip ==
    /\ fn_arg \in Encodings
    /\ fn_result = NoCall
    /\ fn_result' =
          << parse_etraffic_payload(
                 response_of(payload_of(fn_arg), { "text/plain" }, fn_arg.xor_key)) >>
    /\ UNCHANGED << fn_arg, heap, client, clock, life, config_vars, store_vars, lock, wpc, cycle_vars,
                    loop_vars, reader_vars >>

RoundTripNext == CallRoundTrip

RoundTripSpec == RoundTripInit /\ [][RoundTripNext]_vars

\* --------------------------------------------------------------------- C22
\* C22: for every JSON value and every non-empty key, the decoder configured
\* with that key returns, under a text content type, the value whose JSON
\* text was combined with the first byte of the key and put in base64,
\* whether the base64 text kept its trailing padding or lost it.
C22_RoundTrip ==
    (fn_result # NoCall /\ fn_arg.xor_key = fn_arg.key) =>
        /\ ~fn_result[1].raised
        /\ fn_result[1].value = << fn_arg.value >>

\* the decoder has returned a list of two numbers from a payload whose
\* padding had been removed, under a key of two characters
C22_Witness ==
    /\ fn_result # NoCall
    /\ fn_arg.xor_key = fn_arg.key
    /\ Len(fn_arg.key) = 2
    /\ fn_arg.padding = "removed"
    /\ Len(payload_of(fn_arg)) % 4 # 0
    /\ fn_arg.value.kind = "list"
    /\ Len(fn_arg.value.v) = 2
    /\ fn_result[1].value = << fn_arg.value >>
    /\ fn_result[1].tried = << 2 >>

\* ------------------------------------------------- the identity of an event
\* The id of a raw record is a JSON scalar: null (or absent), a number or a
\* text.  The other fields that the identity reads are texts or null, and
\* the coordinates are numbers, counted in millionths of a degree.
IdValues ==
    { [kind |-> "null", text |-> <<>>, number |-> 0] }
    \cup { [kind |-> "number", text |-> <<>>, number |-> n] : n \in { 0, 7 } }
    \cup { [kind |-> "text", text |-> t, number |-> 0] :
              t \in { <<>>, << " " >>, << "d" >>, << " ", "d" >> } }

NoId == [kind |-> "null", text |-> <<>>, number |-> 0]

Coordinates == { -4, 4, 12, 14 }

\* The records: the id, the road under its first two keys, the distance
\* marker, the cause and the type under their first key, the flat
\* coordinates, and a field that the identity does not read.
KeyRecords(ids) ==
    [id : ids, carretera : { <<>>, << << "d" >> >>, << << " ", "d" >> >> },
     via : { <<>>, << << "d" >> >> }, pkIni : { <<>>, << << "d" >> >> },
     causa : { << << "d" >> >> }, tipo : { << << "d" >> >> },
     lat : Coordinates, lon : { 12 }, provincia : { <<>>, << << "d" >> >> }]

\* whether Python takes a scalar as true, and its str()
truthy(value) ==
    \/ value.kind = "text" /\ value.text # <<>>
    \/ value.kind = "number" /\ value.number # 0

str(value) ==
    CASE value.kind = "text" -> value.text
      [] value.kind = "number" -> IF value.number = 0 THEN << "0" >> ELSE << "7" >>
      [] OTHER -> << "N", "o", "n", "e" >>

\* an identity that keeps the whitespace around the id
raw_id_untrimmed(raw) == IF truthy(raw.id) THEN str(raw.id) ELSE <<>>

\* str(raw.get("id") or "").strip()
raw_id(raw) == strip(IF truthy(raw.id) THEN str(raw.id) ELSE <<>>)

\* f"{x:.5f}": the sign and the hundred-thousandths nearest to x
fmt5(x) ==
    [negative |-> x < 0, units |-> ((IF x < 0 THEN 0 - x ELSE x) + 5) \div 10]

\* a fingerprint that reads the province too
fingerprint_with_province(raw, lat, lon) ==
    << fmt5(lat), fmt5(lon), strip(str_or_empty(py_or(raw.carretera, raw.via))),
       strip(str_or_empty(raw.pkIni)), strip(str_or_empty(raw.causa)),
       strip(str_or_empty(raw.tipo)), strip(str_or_empty(raw.provincia)) >>

\* the text that _event_key digests, as the sequence of its parts
fingerprint(raw, lat, lon) ==
    << fmt5(lat), fmt5(lon), strip(str_or_empty(py_or(raw.carretera, raw.via))),
       strip(str_or_empty(raw.pkIni)), strip(str_or_empty(raw.causa)),
       strip(str_or_empty(raw.tipo)) >>

\* _event_key: the id of the record, or the digest of its fingerprint (a
\* digest stands for the text it was computed from)
event_id(raw, lat, lon) ==
    IF raw_id(raw) # <<>>
    THEN [digest |-> FALSE, text |-> raw_id(raw), of |-> <<>>]
    ELSE [digest |-> TRUE, text |-> <<>>, of |-> fingerprint(raw, lat, lon)]

\* parse_event at the time at, for a record with flat coordinates and no
\* start time
keyed_event(raw, at) ==
    [id |-> event_id(raw, raw.lat, raw.lon), latitud |-> raw.lat, longitud |-> raw.lon,
     first_seen |-> at, last_seen |-> at, raw |-> raw]

\* the two times of the polls
PollTimes == { 1, 2 }

\* two records without an id, each normalized at its poll
StableInit ==
    /\ Constructed
    /\ fn_arg \in [first : KeyRecords({ NoId }), second : KeyRecords({ NoId }),
                   at : { << 1, t >> : t \in PollTimes }]
    /\ fn_result = NoCall

CallNormalizeTwice ==
    /\ fn_arg \in [first : KeyRecords({ NoId }), second : KeyRecords({ NoId }),
                   at : { << 1, t >> : t \in PollTimes }]
    /\ fn_result = NoCall
    /\ fn_result' = << keyed_event(fn_arg.first, fn_arg.at[1]),
                       keyed_event(fn_arg.second, fn_arg.at[2]) >>
    /\ UNCHANGED << fn_arg, heap, client, clock, life, config_vars, store_vars, lock, wpc, cycle_vars,
                    loop_vars, reader_vars >>

StableNext == CallNormalizeTwice

StableSpec == StableInit /\ [][StableNext]_vars

\* one record, with or without an id
KeyInit ==
    /\ Constructed
    /\ fn_arg \in KeyRecords(IdValues)
    /\ fn_result = NoCall

CallNormalize ==
    /\ fn_arg \in KeyRecords(IdValues)
    /\ fn_result = NoCall
    /\ fn_result' = << keyed_event(fn_arg, 1) >>
    /\ UNCHANGED << fn_arg, heap, client, clock, life, config_vars, store_vars, lock, wpc, cycle_vars,
                    loop_vars, reader_vars >>

KeyNext == CallNormalize

KeySpec == KeyInit /\ [][KeyNext]_vars

\* --------------------------------------------------------------------- C23
\* the road, the distance marker, the cause and the type of a record: the
\* first of its keys that holds a text, trimmed, null being empty
road_of(raw) == strip(str_or_empty(py_or(raw.carretera, raw.via)))
marker_of(raw) == strip(str_or_empty(raw.pkIni))
cause_of(raw) == strip(str_or_empty(raw.causa))
type_of(raw) == strip(str_or_empty(raw.tipo))

\* a coordinate written with five decimals
rounded5(x) == << x < 0, ((IF x < 0 THEN 0 - x ELSE x) + 5) \div 10 >>

same_identity_fields(a, b) ==
    /\ road_of(a) = road_of(b)
    /\ marker_of(a) = marker_of(b)
    /\ cause_of(a) = cause_of(b)
    /\ type_of(a) = type_of(b)
    /\ rounded5(a.lat) = rounded5(b.lat)
    /\ rounded5(a.lon) = rounded5(b.lon)

C24_ExplicitIdVerbatim ==
    fn_result # NoCall =>
        IF fn_arg.id.kind # "null"
        THEN ~fn_result[1].id.digest /\ fn_result[1].id.text = str(fn_arg.id)
        ELSE fn_result[1].id.digest

\* C24 amended: whenever the record carries an identifier that Python takes
\* as true (a text that is not empty, a number that is not zero) and whose
\* text is not whitespace alone, the id of the event is the text of the
\* identifier without its surrounding whitespace; in every other case (no
\* identifier, null, the empty text, whitespace alone, zero) the id is the
\* digest of the fingerprint.
C24_ExplicitId ==
    fn_result # NoCall =>
        IF truthy(fn_arg.id) /\ strip(str(fn_arg.id)) # <<>>
        THEN /\ ~fn_result[1].id.digest
             /\ fn_result[1].id.text = strip(str(fn_arg.id))
        ELSE /\ fn_result[1].id.digest
             /\ fn_result[1].id.of[3] = road_of(fn_arg)

\* a record whose identifier has whitespace before it has got the trimmed
\* identifier as its id
C24_Witness ==
    /\ fn_result # NoCall
    /\ fn_arg.id.kind = "text"
    /\ fn_arg.id.text = << " ", "d" >>
    /\ ~fn_result[1].id.digest
    /\ fn_result[1].id.text = << "d" >>

\* ------------------------------------------------ the coordinates of a record
\* A value that _to_float is given: null, the number zero, another finite
\* number n, a number that is not finite (NaN or an infinity, which
\* json.loads accepts), an integer too large for a float, or a text that is
\* not a number.
Scalar(kind, n) == [kind |-> kind, n |-> n]

Null == Scalar("null", 0)

\* the values of the two coordinates of a geometry, of the flat latitude
\* under its first and second key, and of the flat longitude
GeometryScalars(n) ==
    { Scalar("number", n), Scalar("nan", 0), Scalar("huge", 0), Scalar("text", 0) }

FlatScalars(n) ==
    { Null, Scalar("zero", 0), Scalar("number", n), Scalar("nan", 0), Scalar("huge", 0),
      Scalar("text", 0) }

\* The geometry of a record: absent (or null), a text that is not JSON, or
\* an object, given as such or as its JSON text, with its type and either
\* the pair that the code reads from its coordinates (the coordinates of a
\* point, the first vertex of a line) or no pair when they have not that
\* shape.
Geometries ==
    { [form |-> "absent", type |-> "Point", pair |-> <<>>],
      [form |-> "invalid text", type |-> "Point", pair |-> <<>>] }
    \cup [form : { "object", "text" }, type : { "Point", "LineString", "Polygon" },
          pair : { <<>> } \cup { << x, y >> : x \in GeometryScalars(1), y \in GeometryScalars(2) }]

CoordRecords ==
    [geometria : Geometries, lat : FlatScalars(3), latitud : { Null, Scalar("number", 4) },
     lon : { Null, Scalar("zero", 0), Scalar("number", 5) }]

\* what _to_float gives: None, a float (finite or not) or an OverflowError
NoFloat == [kind |-> "none", n |-> 0]

to_float(value) ==
    CASE value.kind = "number" -> [kind |-> "finite", n |-> value.n]
      [] value.kind = "zero" -> [kind |-> "finite", n |-> 0]
      [] value.kind = "nan" -> [kind |-> "not finite", n |-> 0]
      [] value.kind = "huge" -> [kind |-> "raises", n |-> 0]
      [] OTHER -> NoFloat

\* value or other on scalars: null and zero are falsy
scalar_or(value, other) == IF value.kind \in { "null", "zero" } THEN other ELSE value

\* whether the code returns the pair of the geometry
geometry_returns(geometry) ==
    /\ geometry.form \in { "object", "text" }
    /\ geometry.type \in { "Point", "LineString" }
    /\ geometry.pair # <<>>

\* _extract_coordinates: the latitude and the longitude, in this order; the
\* pair of a geometry holds the longitude first; the flat fields are read
\* under their keys in turn, the keys that the records lack being null
extract_coordinates(raw) ==
    IF geometry_returns(raw.geometria)
    THEN << to_float(raw.geometria.pair[2]), to_float(raw.geometria.pair[1]) >>
    ELSE << to_float(scalar_or(scalar_or(raw.lat, raw.latitud), Null)),
            to_float(scalar_or(raw.lon, Null)) >>

\* parse_event, as far as the coordinates decide it: the exception of
\* _to_float leaves it, a missing coordinate makes it return None, and any
\* other pair becomes the coordinates of the event
located_event(raw) ==
    LET pair == extract_coordinates(raw)
    IN IF pair[1].kind = "raises" \/ pair[2].kind = "raises"
       THEN [outcome |-> "raised", latitud |-> NoFloat, longitud |-> NoFloat]
       ELSE IF pair[1].kind = "none" \/ pair[2].kind = "none"
       THEN [outcome |-> "dropped", latitud |-> NoFloat, longitud |-> NoFloat]
       ELSE [outcome |-> "event", latitud |-> pair[1], longitud |-> pair[2]]

CoordInit ==
    /\ Constructed
    /\ fn_arg \in CoordRecords
    /\ fn_result = NoCall

CallLocate ==
    /\ fn_arg \in CoordRecords
    /\ fn_result = NoCall
    /\ fn_result' = << located_event(fn_arg) >>
    /\ UNCHANGED << fn_arg, heap, client, clock, life, config_vars, store_vars, lock, wpc, cycle_vars,
                    loop_vars, reader_vars >>

CoordNext == CallLocate

CoordSpec == CoordInit /\ [][CoordNext]_vars

\* --------------------------------------------------------------------- C25
\* a value that is a finite number
IsFinite(value) == value.kind \in { "number", "zero" }

\* the geometry is present and of a shape that holds a pair
usable_shape(geometry) ==
    /\ geometry.form \in { "object", "text" }
    /\ geometry.type \in { "Point", "LineString" }
    /\ geometry.pair # <<>>

\* the geometry, or the flat fields under one of their keys, hold a pair of
\* finite numbers
geometry_valid(raw) ==
    /\ usable_shape(raw.geometria)
    /\ IsFinite(raw.geometria.pair[1])
    /\ IsFinite(raw.geometria.pair[2])

flat_valid(raw) == (IsFinite(raw.lat) \/ IsFinite(raw.latitud)) /\ IsFinite(raw.lon)

\* C25 as stated: a record is dropped if and only if neither its geometry
\* nor its flat fields hold a valid finite pair; a record whose geometry is
\* present but holds none, and whose flat fields hold one, becomes an event
\* with the flat coordinates; and every event has a finite latitude and a
\* finite longitude.
C25_DroppedIffNoFinitePair ==
    fn_result # NoCall =>
        /\ (fn_result[1].outcome = "dropped") <=> ~(geometry_valid(fn_arg) \/ flat_valid(fn_arg))
        /\ (fn_arg.geometria.form # "absent" /\ ~geometry_valid(fn_arg) /\ flat_valid(fn_arg)) =>
              /\ fn_result[1].outcome = "event"
              /\ fn_result[1].latitud.n \in { 0, 3, 4 }
              /\ fn_result[1].longitud.n \in { 0, 5 }
        /\ fn_result[1].outcome = "event" =>
              /\ fn_result[1].latitud.kind = "finite"
              /\ fn_result[1].longitud.kind = "finite"

\* ------------------------------------------------- the upstream endpoint
\* The configured endpoint as urlparse reads it: its scheme (in lower case)
\* and the host of its authority, a text or nothing; the configured list of
\* allowed hosts, never empty; the method; and what the upstream would
\* answer to a request.
Schemes == { "https", "http", "ftp", "" }

Hosts == { <<>>, << << "d" >> >>, << << "D" >> >>, << << "d", "d" >> >> }

AllowedHosts == { { << "d" >> }, { << "D" >> }, { << "d", "d" >> } }

Answers == { "payload", "undecodable", "status error", "network error" }

Endpoints ==
    [scheme : Schemes, host : Hosts, allowed : AllowedHosts, method : { "POST", "GET" },
     answer : Answers]

\* a check that lets every host through
host_allowed_any(host, allowed) == TRUE

\* (parsed.hostname or "").lower() in [h.lower() for h in allowed_hosts]
host_allowed(host, allowed) ==
    lower(str_or_empty(host)) \in { lower(h) : h \in allowed }

\* _fetch_etraffic_response: the exception of the validation, or the request
\* that the client sends
fetch_etraffic_response(e) ==
    IF e.scheme \notin { "https", "http" } THEN [raised |-> TRUE, requests |-> <<>>]
    ELSE IF ~host_allowed(e.host, e.allowed) THEN [raised |-> TRUE, requests |-> <<>>]
    ELSE [raised |-> FALSE, requests |-> << [method |-> e.method, host |-> e.host] >>]

\* fetch_payload: the payload and the response that it returns (each empty
\* for None), with the requests that were sent
fetch_payload(e) ==
    LET sent == fetch_etraffic_response(e)
    IN IF sent.raised \/ e.answer = "network error"
       THEN [requests |-> sent.requests, payload |-> <<>>, response |-> <<>>]
       ELSE IF e.answer = "payload"
       THEN [requests |-> sent.requests, payload |-> << "data" >>, response |-> << 200 >>]
       ELSE IF e.answer = "undecodable"
       THEN [requests |-> sent.requests, payload |-> <<>>, response |-> << 200 >>]
       ELSE [requests |-> sent.requests, payload |-> <<>>, response |-> << 500 >>]

EndpointInit ==
    /\ Constructed
    /\ fn_arg \in Endpoints
    /\ fn_result = NoCall

CallFetchPayload ==
    /\ fn_arg \in Endpoints
    /\ fn_result = NoCall
    /\ fn_result' = << fetch_payload(fn_arg) >>
    /\ UNCHANGED << fn_arg, heap, client, clock, life, config_vars, store_vars, lock, wpc, cycle_vars,
                    loop_vars, reader_vars >>

EndpointNext == CallFetchPayload

EndpointSpec == EndpointInit /\ [][EndpointNext]_vars

\* --------------------------------------------------------------------- C26
\* the scheme is http or https and the host, without regard to case, is in
\* the list of allowed hosts
endpoint_valid(e) ==
    /\ e.scheme \in { "http", "https" }
    /\ e.host # <<>>
    /\ \E h \in e.allowed : lower(h) = lower(e.host[1])

\* C26: a fetch sends a request only when the scheme of the configured
\* endpoint is http or https and its host is in the allow-list; with any
\* other scheme or host the fetch sends no request and returns no payload
\* and no response.
C26_ValidatedBeforeRequest ==
    fn_result # NoCall =>
        /\ fn_result[1].requests # <<>> => endpoint_valid(fn_arg)
        /\ ~endpoint_valid(fn_arg) =>
              /\ fn_result[1].requests = <<>>
              /\ fn_result[1].payload = <<>>
              /\ fn_result[1].response = <<>>
        /\ endpoint_valid(fn_arg) => Len(fn_result[1].requests) = 1

\* a fetch towards a host outside the allow-list, under https, has sent
\* nothing and returned nothing, although the upstream had a payload
C26_Witness ==
    /\ fn_result # NoCall
    /\ fn_arg.scheme = "https"
    /\ fn_arg.host = << << "d", "d" >> >>
    /\ fn_arg.allowed = { << "d" >> }
    /\ fn_arg.answer = "payload"
    /\ fn_result[1].requests = <<>>
    /\ fn_result[1].payload = <<>>

\* ------------------------------------------- the lifespan and the worker
\* LifeSpec is the application without its request handlers: the lifespan,
\* from the start to the close, and the polling worker.
LifeNext ==
    \/ life = "startup" /\ \E c \in BOOLEAN, h \in BootSnapshots : Startup(c, h)
    \/ Shutdown
    \/ WorkerCancelled
    \/ Close
    \/ \E j \in 0..JitterMax : WorkerWake(j)
    \/ wpc = "fetch" /\ \E r \in FetchResults : \E p \in PayloadsOf(r) : WorkerFetch(r, p)
    \/ WorkerAcquire
    \/ WorkerMerge
    \/ WorkerSweep
    \/ WorkerGc
    \/ wpc = "persist" /\ \E r \in PersistResults : WorkerPersist(r)

LifeSpec == Init /\ [][LifeNext]_vars

\* --------------------------------------------------------------------- C27
\* a fetch has started: the clock moves when the worker wakes up and at no
\* other step
fetch_started == clock > BootClock

\* C27: no client exists before the first fetch and one has been constructed
\* once a fetch has started; no second client is ever constructed; a fetch
\* in progress runs on that client, which is open; and the client is closed
\* only when the lifespan has stopped, the worker task having ended (or
\* never started), after which the service holds no client.
C27_ClientLifecycle ==
    /\ client.made = (IF fetch_started THEN 1 ELSE 0)
    /\ client.current \in { 0, client.made }
    /\ wpc = "fetch" => (client.current = 1 /\ client.closed = {})
    /\ client.closed # {} => (life = "stopped" /\ wpc \in {"none", "done"})
    /\ life = "stopped" => (client.current = 0 /\ client.closed = 1..client.made)
    /\ life # "stopped" => client.current = client.made

\* the lifespan has stopped and closed the one client, which two fetches had
\* used: the worker was cancelled in its second fetch and had ended
C27_Witness ==
    /\ life = "stopped"
    /\ wpc = "done"
    /\ fetched = "pending"
    /\ last_cycle.ended # "none"
    /\ client = [current |-> 0, made |-> 1, closed |-> { 1 }]

\* --------------------------------------------------------------------- C28
\* the entries of a batch and their ids
BatchEntries(batch) == { batch[i] : i \in 1..Len(batch) }
BatchIds(batch) == { batch[i].id : i \in 1..Len(batch) }

\* C28: the merge puts in the active batch one entry per candidate, in the
\* order of the candidates, among them the entry that the store holds after
\* the merge for the id of every candidate; the sweep puts in the lost batch
\* exactly the entries that it changed from active to lost, each once, as
\* the store holds them; the garbage collection changes neither batch, and
\* no id is in both batches that the cycle hands to the persistence.
C28_Batches ==
    [][ /\ (wpc = "merge" /\ wpc' = "sweep") =>
              /\ Len(active_updates') = Len(candidates)
              /\ \A i \in 1..Len(candidates) : active_updates'[i].id = candidates[i].id
              /\ \A i \in 1..Len(candidates) :
                    events'[candidates[i].id] \in BatchEntries(active_updates')
              /\ lost_updates' = <<>>
        /\ (wpc = "sweep" /\ wpc' = "gc") =>
              /\ BatchEntries(lost_updates') =
                    { events'[k] : k \in { j \in DOMAIN events :
                                             /\ events[j].estado = "active"
                                             /\ events'[j].estado = "lost" } }
              /\ Len(lost_updates') = Cardinality(BatchEntries(lost_updates'))
              /\ active_updates' = active_updates
        /\ (wpc = "gc" /\ wpc' = "persist") =>
              /\ active_updates' = active_updates
              /\ lost_updates' = lost_updates
              /\ BatchIds(active_updates') \cap BatchIds(lost_updates') = {}
      ]_vars

\* a cycle hands over both batches: the active one holds an entry that had
\* been active and stale and was observed again by two candidates, the lost
\* one the entry that the sweep has marked
C28_Witness ==
    /\ wpc = "persist"
    /\ Len(active_updates) = 2
    /\ active_updates[1].id = active_updates[2].id
    /\ active_updates[1].id \in DOMAIN pre.events
    /\ pre.events[active_updates[1].id].estado = "active"
    /\ pre.events[active_updates[1].id].last_seen < now - stale_after_seconds
    /\ Len(lost_updates) = 1
    /\ lost_updates[1].id \in DOMAIN events
    /\ events[lost_updates[1].id] = lost_updates[1]

\* --------------------------------------------------------------------- C29
\* an entry that the cycle in progress found active, with last_seen before
\* the retention cutoff, and that no candidate of the cycle carries
Doomed(k) ==
    /\ k \in DOMAIN pre.events
    /\ pre.events[k].estado = "active"
    /\ pre.events[k].last_seen < now - lost_gc_seconds
    /\ k \notin CandidateIds

\* whether what a handler has read shows the entry of id k
Shows(read, k) ==
    /\ read.req.kind \in { "list", "get" }
    /\ \E i \in 1..Len(read.value) : read.value[i].id = k

\* C29: when the critical section of a cycle has ended the store holds no
\* active entry with last_seen before now - stale_after_seconds and no lost
\* entry with last_seen before now - lost_gc_seconds; an entry that the cycle
\* found active with last_seen before the retention cutoff, and that was not
\* observed again, has been marked lost by the sweep and removed by the
\* garbage collection of that cycle, and its lost copy is in the lost batch
\* of the cycle; no handler reads the store between the sweep and the
\* garbage collection, and one that reads it after them does not see the
\* entry.
C29_SweepThenGc ==
    [][ /\ wpc' = "persist" =>
              \A k \in DOMAIN events' :
                 /\ ~(events'[k].estado = "active"
                        /\ events'[k].last_seen < now' - stale_after_seconds)
                 /\ ~(events'[k].estado = "lost"
                        /\ events'[k].last_seen < now' - lost_gc_seconds)
        /\ wpc' = "persist" =>
              \A k \in DOMAIN pre'.events :
                 Doomed(k)' =>
                    /\ k \notin DOMAIN events'
                    /\ [pre'.events[k] EXCEPT !.estado = "lost"] \in BatchEntries(lost_updates')
        /\ (wpc = "gc" /\ wpc' = "persist") =>
              \A k \in DOMAIN pre.events : Doomed(k) => events[k].estado = "lost"
        /\ (rpc = "locked" /\ rpc' = "read") =>
              /\ wpc \notin {"merge", "sweep", "gc"}
              /\ wpc = "persist" =>
                    \A k \in DOMAIN pre.events : Doomed(k) => ~Shows(snapshot', k)
      ]_vars

\* a cycle has marked and removed an active entry older than the retention
\* cutoff, which is in its lost batch, and a handler has since read the
\* list of the store
C29_Witness ==
    /\ wpc = "persist"
    /\ rpc = "read"
    /\ snapshot.req.kind = "list"
    /\ snapshot.value = read_store(snapshot.req, events_order, events)
    /\ \E k \in DOMAIN pre.events :
          /\ Doomed(k)
          /\ k \notin DOMAIN events
          /\ \E i \in 1..Len(lost_updates) : lost_updates[i].id = k
          /\ ~Shows(snapshot, k)

\* ------------------------------------------------- the objects of the store
\* RefSpec tells an event object from its value.  heap.objects are the
\* V16Event objects constructed so far, an object being known by its place;
\* heap.refs is app.state.events with the place of the object that each key
\* refers to, heap.order its keys in insertion order, heap.phase the phase
\* of the critical section in progress, and heap.held the list that a handler
\* obtained under the lock: the places of its objects, with the values that
\* the objects had when the handler read them.
MaxObjects == 6

\* the candidates of a cycle at time t, as parse_event constructs them; raw
\* stands for the record of that poll
RefCandidates(t) ==
    SeqsUpTo({ [id |-> k, first_seen |-> t, last_seen |-> t, raw |-> t, estado |-> "active"] :
                  k \in Ids }, MaxRecords)

\* a new object with a value
constructed(objects, value) == [objects |-> Append(objects, value), at |-> Len(objects) + 1]

\* an update that assigns to the fields of the object itself
assigned_in_place(objects, at, value) ==
    [objects |-> [objects EXCEPT ![at] = value], at |-> at]

\* evt.copy(update=...): a new object with the updated value; the object at
\* the place at stays as it is
copied(objects, at, value) == constructed(objects, value)

\* the merge over candidates[i..]
RECURSIVE ref_merge(_, _, _, _)
ref_merge(cands, i, h, t) ==
    IF i > Len(cands) THEN h
    ELSE LET event == cands[i]
             updated ==
                 IF event.id \in DOMAIN h.refs
                 THEN copied(h.objects, h.refs[event.id],
                             merge_update(h.objects[h.refs[event.id]], event, t))
                 ELSE constructed(h.objects, event)
         IN ref_merge(cands, i + 1,
                      [h EXCEPT !.objects = updated.objects,
                                !.refs = store_put(h.refs, event.id, updated.at),
                                !.order = order_put(h.order, event.id)], t)

\* the sweep over the keys order[i..]
RECURSIVE ref_sweep(_, _, _, _)
ref_sweep(order, i, h, t) ==
    IF i > Len(order) THEN h
    ELSE LET eid == order[i]
             evt == h.objects[h.refs[eid]]
             lost_event == copied(h.objects, h.refs[eid], [evt EXCEPT !.estado = "lost"])
         IN IF is_stale(evt, t)
            THEN ref_sweep(order, i + 1,
                           [h EXCEPT !.objects = lost_event.objects,
                                     !.refs = store_put(h.refs, eid, lost_event.at)], t)
            ELSE ref_sweep(order, i + 1, h, t)

\* _gc_events over the keys order[i..]
RECURSIVE ref_gc(_, _, _, _)
ref_gc(order, i, h, t) ==
    IF i > Len(order) THEN h
    ELSE IF gc_removes(h.objects[h.refs[order[i]]], t)
    THEN ref_gc(order, i + 1,
                [h EXCEPT !.refs = store_pop(h.refs, order[i]),
                          !.order = SelectSeq(h.order, LAMBDA k : k # order[i])], t)
    ELSE ref_gc(order, i + 1, h, t)

\* a cycle takes the lock d seconds after the one before and merges its
\* candidates; there is room for the objects that it and its sweep construct
RefMerge(cands, d) ==
    /\ heap.phase = "idle"
    /\ clock + d <= MaxClock
    /\ Len(heap.objects) + 2 * Len(cands) + Len(heap.order) <= MaxObjects
    /\ clock' = clock + d
    /\ heap' = [ref_merge(cands, 1, heap, clock') EXCEPT !.phase = "sweep"]
    /\ UNCHANGED << call_vars, client, life, config_vars, store_vars, lock, wpc, cycle_vars,
                    loop_vars, reader_vars >>

RefSweep ==
    /\ heap.phase = "sweep"
    /\ heap' = [ref_sweep(heap.order, 1, heap, clock) EXCEPT !.phase = "gc"]
    /\ UNCHANGED << call_vars, client, clock, life, config_vars, store_vars, lock, wpc,
                    cycle_vars, loop_vars, reader_vars >>

RefGc ==
    /\ heap.phase = "gc"
    /\ heap' = [ref_gc(heap.order, 1, heap, clock) EXCEPT !.phase = "idle"]
    /\ UNCHANGED << call_vars, client, clock, life, config_vars, store_vars, lock, wpc,
                    cycle_vars, loop_vars, reader_vars >>

\* list_events under the lock: events = list(store.values())
RefRead ==
    /\ heap.phase = "idle"
    /\ heap' = [heap EXCEPT !.held =
                   << [refs |-> [i \in 1..Len(heap.order) |-> heap.refs[heap.order[i]]],
                       seen |-> [i \in 1..Len(heap.order) |->
                                    heap.objects[heap.refs[heap.order[i]]]]] >>]
    /\ UNCHANGED << call_vars, client, clock, life, config_vars, store_vars, lock, wpc,
                    cycle_vars, loop_vars, reader_vars >>

\* the seconds between two cycles
RefSleeps == { 1, 3 }

RefNext ==
    \/ \E d \in RefSleeps : \E c \in RefCandidates(clock + d) : RefMerge(c, d)
    \/ RefSweep
    \/ RefGc
    \/ RefRead

RefSpec == Init /\ [][RefNext]_vars

\* --------------------------------------------------------------------- C30
\* C30: the list that a handler obtained under the lock keeps its length,
\* and every object in it keeps the value that it had when the handler read
\* it, whatever merges, sweeps and garbage collections follow.
C30_SnapshotIsolation ==
    heap.held # <<>> =>
        /\ Len(heap.held[1].refs) = Len(heap.held[1].seen)
        /\ \A i \in 1..Len(heap.held[1].refs) :
              heap.objects[heap.held[1].refs[i]] = heap.held[1].seen[i]

\* a handler holds a list of two events of which, since it read them, one
\* has been observed again and the other marked lost and then removed
C30_Witness ==
    /\ heap.held # <<>>
    /\ heap.phase = "idle"
    /\ Len(heap.held[1].refs) = 2
    /\ \E i, j \in 1..2 :
          /\ heap.held[1].seen[i].id \in DOMAIN heap.refs
          /\ heap.refs[heap.held[1].seen[i].id] # heap.held[1].refs[i]
          /\ heap.objects[heap.refs[heap.held[1].seen[i].id]].last_seen
                > heap.held[1].seen[i].last_seen
          /\ heap.held[1].seen[j].estado = "active"
          /\ heap.held[1].seen[j].id \notin DOMAIN heap.refs

\* ------------------------------------------------- the frame of a merge
\* The records of three polls of one situation: an explicit id, the source
\* tag with or without a trailing space, the type and the cause in either
\* case, the road, the distance marker, the province and the municipality
\* under their first key, and flat coordinates.  Every one of them passes the
\* filter.
FrameRecords ==
    [id : { [kind |-> "text", text |-> << "d" >>, number |-> 0] },
     fuente : { << << "D" >> >>, << << "D", " " >> >> },
     subtipoVialidad : { <<>> }, tipo : { << << "d" >> >>, << << "D" >> >> },
     subcausa : { <<>> }, causa : { << << "d" >> >>, << << "D" >> >> },
     carretera : { <<>>, << << "d" >> >> }, via : { <<>> },
     pkIni : { <<>>, << << "d" >> >> },
     provinciaIni : { <<>>, << << "d" >> >> },
     municipioIni : { <<>>, << << "d" >> >> },
     lat : { 4, 12 }, lon : { 12, 14 }]

\* the records of the first poll
FirstRecords ==
    { r \in FrameRecords :
        /\ r.lat = 4 /\ r.lon = 12 /\ r.causa = r.tipo
        /\ r.pkIni = r.carretera /\ r.provinciaIni = r.carretera
        /\ r.municipioIni = r.carretera }

\* The payloads of the three polls: the situation, then nothing or the same
\* record again, then a record of the same id.
FramePolls ==
    { << << a >>, mid, << b >> >> :
        a \in FirstRecords, mid \in { <<>> }, b \in FrameRecords }
    \cup { << << a >>, << a >>, << b >> >> : a \in FirstRecords, b \in FrameRecords }

\* the times of the three polls: the second is late enough for the sweep to
\* mark an entry of the first that it no longer observes
PollAt == << 1, 4, 5 >>

\* EtrafficService.parse_event, for a record with flat coordinates and no
\* start time: every field of the V16Event
v16_event(raw, at) ==
    [id |-> event_id(raw, raw.lat, raw.lon),
     latitud |-> raw.lat, longitud |-> raw.lon,
     causa |-> str_or_empty(py_or(raw.subcausa, raw.causa)),
     tipo |-> str_or_empty(py_or(raw.subtipoVialidad, raw.tipo)),
     carretera |-> str_or_empty(py_or(raw.carretera, raw.via)),
     km |-> str_or_empty(raw.pkIni),
     provincia |-> str_or_empty(raw.provinciaIni),
     municipio |-> str_or_empty(raw.municipioIni),
     fuente |-> str_or_empty(raw.fuente),
     first_seen |-> at, last_seen |-> at, raw |-> raw, estado |-> "active"]

\* EtrafficService.extract_candidates, on these records
RECURSIVE v16_candidates(_, _)
v16_candidates(raw_events, at) ==
    IF raw_events = <<>> THEN <<>>
    ELSE LET rest == v16_candidates(Tail(raw_events), at)
         IN IF ~is_candidate(Head(raw_events)) THEN rest
            ELSE << v16_event(Head(raw_events), at) >> \o rest

\* _refresh_events under the lock, on the store that the earlier polls left:
\* the candidates, the store before, after the merge and after the sweep and
\* the collection
refresh_events(raw_events, before, at) ==
    LET cands == v16_candidates(raw_events, at)
        m == merge_loop(cands, 1, before.events, before.order, <<>>, at)
        s == sweep_loop(m.order, 1, m.events, <<>>, at)
        g == gc_events(m.order, 1, s.events, at)
    IN [now |-> at, candidates |-> cands, pre |-> before, merged |-> m.events,
        events |-> g.events, order |-> g.order]

\* the store that the polls made so far have left
store_after(results) ==
    IF results = <<>> THEN NoStore
    ELSE [events |-> results[Len(results)].events, order |-> results[Len(results)].order]

FrameInit ==
    /\ Constructed
    /\ fn_arg \in FramePolls
    /\ fn_result = NoCall

\* the next poll of the sequence
CallRefresh ==
    /\ fn_arg \in FramePolls
    /\ Len(fn_result) < Len(fn_arg)
    /\ fn_result' = Append(fn_result,
                           refresh_events(fn_arg[Len(fn_result) + 1],
                                          store_after(fn_result),
                                          PollAt[Len(fn_result) + 1]))
    /\ UNCHANGED << fn_arg, heap, client, clock, life, config_vars, store_vars, lock, wpc, cycle_vars,
                    loop_vars, reader_vars >>

FrameNext == CallRefresh

FrameSpec == FrameInit /\ [][FrameNext]_vars

\* --------------------------------------------------------------------- C31
\* the fields of an entry that describe the situation
DescriptiveFields ==
    { "latitud", "longitud", "causa", "tipo", "carretera", "km", "provincia",
      "municipio", "fuente" }

\* the entry new is the entry old but for last_seen, raw and the status
same_but_refreshed(old, new) ==
    /\ \A f \in DescriptiveFields : new[f] = old[f]
    /\ new.id = old.id
    /\ new.first_seen = old.first_seen

\* the polls in which a candidate matched an entry of the store
Matched(results) ==
    { << c, i >> \in (1..Len(results)) \X (1..1) :
        /\ Len(results[c].candidates) >= i
        /\ results[c].candidates[i].id \in DOMAIN results[c].pre.events }

\* C31: when a candidate matches an existing entry, the entry after the merge
\* (and after the cycle) has the pre-cycle coordinates, cause, type, road,
\* distance marker, province, municipality and source tag, whatever the
\* candidate carries for them; its last_seen is the time of the poll, its raw
\* is the candidate's and its status is active.
C31_MergeFrame ==
    \A m \in Matched(fn_result) :
        LET cycle == fn_result[m[1]]
            event == cycle.candidates[m[2]]
            old == cycle.pre.events[event.id]
        IN /\ event.id \in DOMAIN cycle.merged
           /\ same_but_refreshed(old, cycle.merged[event.id])
           /\ cycle.merged[event.id].last_seen = cycle.now
           /\ cycle.merged[event.id].raw = event.raw
           /\ cycle.merged[event.id].estado = "active"
           /\ cycle.events[event.id] = cycle.merged[event.id]

\* the third poll has matched an entry that the second had marked lost, with
\* a candidate that differs from it in every descriptive field, and the entry
\* has kept them all while its last_seen, raw and status changed
C31_Witness ==
    /\ Len(fn_result) = 3
    /\ << 3, 1 >> \in Matched(fn_result)
    /\ LET cycle == fn_result[3]
           event == cycle.candidates[1]
           old == cycle.pre.events[event.id]
           new == cycle.events[event.id]
       IN /\ \A f \in DescriptiveFields : event[f] # old[f]
          /\ old.estado = "lost"
          /\ same_but_refreshed(old, new)
          /\ new.estado = "active"
          /\ new.last_seen > old.last_seen
          /\ new.raw # old.raw

\* --------------------------------------------------------------------- C32
\* C32: in every state of the store, after the load at startup and after any
\* number of cycles (and within them), every key maps to an event whose id is
\* that key.
C32_KeyConsistency == \A k \in DOMAIN events : events[k].id = k

\* a store loaded at startup with two events has since been through a cycle
\* that refreshed one of them, marked the other lost and added nothing, and
\* holds each under its id
C32_Witness ==
    /\ wpc = "persist"
    /\ es_client
    /\ DOMAIN pre.events = Ids
    /\ DOMAIN events = Ids
    /\ Len(active_updates) > 0
    /\ Len(lost_updates) > 0
    /\ \A k \in Ids : events[k].id = k /\ events[k] # pre.events[k]

====
